---- MODULE Spec2Model ----
(***************************************************************************)
(* A model of metaboverse/databases.py: the substructure store             *)
(* (SubstructureDb) and its network, the fragment extractor                *)
(* (get_substructure), the population pipeline                             *)
(* (update_substructure_database) and the isomorphism catalog build        *)
(* (create_isomorphism_database).                                          *)
(*                                                                         *)
(* Representation.                                                         *)
(*  - A molecule is [atoms, bonds]: atoms a sequence of [sym, h, arom]     *)
(*    (element symbol, attached hydrogens, aromatic flag), bonds a         *)
(*    sequence of [a1, a2, order] (begin atom, end atom, twice the bond    *)
(*    order: 2 single, 3 aromatic, 4 double).  Atom and bond indexes are   *)
(*    the toolkit's indexes plus one (sequences start at 1).               *)
(*  - Masses are integers in units of 1e-6 Da, the resolution of the       *)
(*    element table of calculate_exact_mass; arithmetic on them is exact.  *)
(*    A decimal tie of round() is decided by the binary representation of  *)
(*    the float, which the model leaves open: fp is the direction.         *)
(*  - A Python dict is a function, None is the record [none |-> TRUE].     *)
(***************************************************************************)
EXTENDS Integers, Sequences, FiniteSets, TLC

VARIABLES
    compounds,              \* table compounds: hmdbid -> row
    substructures,          \* table substructures: smiles -> row
    hmdbid_substructures,   \* table hmdbid_substructures: set of <<hmdbid, smiles>>
    fp,                     \* direction in which a decimal tie of round() falls
    written,                \* substructure rows handed to INSERT by the last pipeline call
    last,                   \* the last pipeline call: its operation, arguments and outcome
    query,                  \* the last query: its operation, arguments and result
    nCalls,                 \* number of pipeline calls made so far
    parent,                 \* the parent molecule extractions are made on
    extracted,              \* the extractions made on parent: bond-index list and result
    conn,                   \* the connection of a pipeline call that is followed step by step
    pc,                     \* where create_isomorphism_database is
    templates,              \* the templates still to come
    template,               \* the block sizes p of the template at hand
    geng_out,               \* the generator's lines from the candidate at hand on
    RI_out,                 \* the matcher's lines still to read
    mappings,               \* the batch of mappings read and not yet folded
    subgraphs,              \* the accumulator: per valence signature its edge sequences
    id_pkl,                 \* the last identifier given
    subgraphs_table,        \* table subgraphs
    pkls,                   \* the artifacts: pkls[id] is the prefix tree of <id>.pkl
    geng_runs,              \* the runs of the generator so far: template, status, lines
    RI_all,                 \* the matcher's lines for the candidate at hand
    folded,                 \* the batches folded for the candidate at hand
    block,                  \* the signatures of a candidate being persisted one statement at a time
    helpers                 \* the helper tables unique_hmdbid and filtered_hmdbid_substructures

storeVars == <<compounds, substructures, hmdbid_substructures, fp, written, last, query, nCalls>>
extractVars == <<parent, extracted>>
txnVars == <<conn>>
isoVars == <<pc, templates, template, geng_out, RI_out, mappings, subgraphs, id_pkl,
             subgraphs_table, pkls, geng_runs, RI_all, folded>>
persistVars == <<block>>
helperVars == <<helpers>>
buildVars == <<txnVars, isoVars, persistVars, helperVars>>
vars == <<storeVars, extractVars, buildVars>>

None == [none |-> TRUE]

(***************************************************************************)
(* Generic helpers                                                         *)
(***************************************************************************)
Range(s) == {s[i] : i \in DOMAIN s}

RECURSIVE SumSet(_, _)
\* sum of f[x] over the finite set S
SumSet(f, S) ==
    IF S = {} THEN 0
    ELSE LET x == CHOOSE y \in S : TRUE IN f[x] + SumSet(f, S \ {x})

RECURSIVE Flatten(_)
\* concatenation of a sequence of sequences
Flatten(ss) == IF ss = <<>> THEN <<>> ELSE Head(ss) \o Flatten(Tail(ss))

RECURSIVE Pow10(_)
Pow10(n) == IF n = 0 THEN 1 ELSE 10 * Pow10(n - 1)

Abs(x) == IF x < 0 THEN -x ELSE x

RECURSIVE SortedSeq(_)
\* the numbers of a set, ascending
SortedSeq(S) ==
    IF S = {} THEN <<>>
    ELSE LET m == CHOOSE x \in S : \A y \in S : x <= y
         IN <<m>> \o SortedSeq(S \ {m})

\* f[x] where the table f has x, else y
Memo(f, x, y) == IF x \in DOMAIN f THEN f[x] ELSE y

(***************************************************************************)
(* Molecules (the toolkit's graph: atoms, bonds, neighbours)               *)
(***************************************************************************)
Atom(sym, h, arom) == [sym |-> sym, h |-> h, arom |-> arom]
Bond(a1, a2, order) == [a1 |-> a1, a2 |-> a2, order |-> order]

\* Chem.Atom("*"): a wildcard atom, no hydrogens, not aromatic
DummyAtom == Atom("*", 0, FALSE)

AtomIdxs(mol) == 1 .. Len(mol.atoms)
BondIdxs(mol) == 1 .. Len(mol.bonds)

\* atom.GetNeighbors()
Neighbors(mol, i) ==
    {mol.bonds[k].a2 : k \in {j \in BondIdxs(mol) : mol.bonds[j].a1 = i}}
    \cup {mol.bonds[k].a1 : k \in {j \in BondIdxs(mol) : mol.bonds[j].a2 = i}}

IsDummy(mol, i) == mol.atoms[i].sym = "*"

\* mol.GetNumHeavyAtoms()
NumHeavyAtoms(mol) == Cardinality({i \in AtomIdxs(mol) : mol.atoms[i].sym # "H"})

RECURSIVE Reach(_, _, _)
\* atoms reachable from the set seen without using bond number skip
Reach(mol, skip, seen) ==
    LET step == {mol.bonds[k].a2 : k \in {j \in BondIdxs(mol) \ {skip} : mol.bonds[j].a1 \in seen}}
                \cup {mol.bonds[k].a1 : k \in {j \in BondIdxs(mol) \ {skip} : mol.bonds[j].a2 \in seen}}
    IN IF step \subseteq seen THEN seen ELSE Reach(mol, skip, seen \cup step)

\* ring membership as the toolkit's ring perception gives it
InRing(mol, i) ==
    \E k \in BondIdxs(mol) :
        /\ i \in {mol.bonds[k].a1, mol.bonds[k].a2}
        /\ mol.bonds[k].a2 \in Reach(mol, k, {mol.bonds[k].a1})

(***************************************************************************)
(* Inputs: source records and their molecules (kekulized, as                *)
(* _filter_hmdb_records leaves them)                                       *)
(***************************************************************************)
\* GetBondTypeAsDouble, doubled
SINGLE == 2
DOUBLE == 4

Mol(atoms, bonds) == [atoms |-> atoms, bonds |-> bonds]

\* CCCO, propan-1-ol
mol_CCCO ==
    Mol(<<Atom("C", 3, FALSE), Atom("C", 2, FALSE), Atom("C", 2, FALSE), Atom("O", 1, FALSE)>>,
        <<Bond(1, 2, SINGLE), Bond(2, 3, SINGLE), Bond(3, 4, SINGLE)>>)
\* CCCS, propane-1-thiol
mol_CCCS ==
    Mol(<<Atom("C", 3, FALSE), Atom("C", 2, FALSE), Atom("C", 2, FALSE), Atom("S", 1, FALSE)>>,
        <<Bond(1, 2, SINGLE), Bond(2, 3, SINGLE), Bond(3, 4, SINGLE)>>)
\* PCCC, propylphosphine written from the phosphorus end
mol_PCCC ==
    Mol(<<Atom("P", 2, FALSE), Atom("C", 2, FALSE), Atom("C", 2, FALSE), Atom("C", 3, FALSE)>>,
        <<Bond(1, 2, SINGLE), Bond(2, 3, SINGLE), Bond(3, 4, SINGLE)>>)
\* C1CNC1, azetidine
mol_C1CNC1 ==
    Mol(<<Atom("C", 2, FALSE), Atom("C", 2, FALSE), Atom("N", 1, FALSE), Atom("C", 2, FALSE)>>,
        <<Bond(1, 2, SINGLE), Bond(2, 3, SINGLE), Bond(3, 4, SINGLE), Bond(4, 1, SINGLE)>>)
\* c1ccoc1, furan, kekulized with the aromatic flags kept
mol_c1ccoc1 ==
    Mol(<<Atom("C", 1, TRUE), Atom("C", 1, TRUE), Atom("C", 1, TRUE), Atom("O", 0, TRUE),
          Atom("C", 1, TRUE)>>,
        <<Bond(1, 2, SINGLE), Bond(2, 3, DOUBLE), Bond(3, 4, SINGLE), Bond(4, 5, SINGLE),
          Bond(5, 1, DOUBLE)>>)
\* CCO, ethanol: fewer than four heavy atoms
mol_CCO ==
    Mol(<<Atom("C", 3, FALSE), Atom("C", 2, FALSE), Atom("O", 1, FALSE)>>,
        <<Bond(1, 2, SINGLE), Bond(2, 3, SINGLE)>>)

Record(accession, mol, charged) == [accession |-> accession, mol |-> mol, charged |-> charged]

rec_A == Record("A", mol_CCCO, FALSE)
rec_B == Record("B", mol_CCCS, FALSE)
rec_C == Record("C", mol_C1CNC1, FALSE)
\* a second record under the accession of rec_A
rec_A2 == Record("A", mol_PCCC, FALSE)
rec_F == Record("F", mol_c1ccoc1, FALSE)
rec_E == Record("E", mol_CCO, FALSE)
\* a record whose SMILES carries a charge
rec_G == Record("G", mol_CCCS, TRUE)

Records == {rec_A, rec_B, rec_C, rec_A2, rec_F, rec_E, rec_G}
Parents == {r.mol : r \in Records}

(***************************************************************************)
(* get_substructure                                                        *)
(***************************************************************************)
RECURSIVE AtomIdxsSubgraphFrom(_, _, _)
AtomIdxsSubgraphFrom(mol, idxs, acc) ==
    IF idxs = <<>> THEN acc
    ELSE LET b == mol.bonds[Head(idxs)]
             acc1 == IF b.a1 \in Range(acc) THEN acc ELSE Append(acc, b.a1)
             acc2 == IF b.a2 \in Range(acc1) THEN acc1 ELSE Append(acc1, b.a2)
         IN AtomIdxsSubgraphFrom(mol, Tail(idxs), acc2)

\* atom_idxs_subgraph: the atoms incident to the selected bonds
AtomIdxsSubgraph(mol, idxs_edges_subgraph) ==
    AtomIdxsSubgraphFrom(mol, idxs_edges_subgraph, <<>>)

\* atoms_to_dummy: the neighbours of selected atoms outside the selection
AtomsToDummy(mol, atom_idxs_subgraph) ==
    {j \in AtomIdxs(mol) :
        /\ j \notin Range(atom_idxs_subgraph)
        /\ \E i \in Range(atom_idxs_subgraph) : j \in Neighbors(mol, i)}

\* the ReplaceAtom loop: every atom of atoms_to_dummy becomes a wildcard
ReplaceAtoms(mol, atoms_to_dummy) ==
    [mol EXCEPT !.atoms =
        [i \in AtomIdxs(mol) |-> IF i \in atoms_to_dummy THEN DummyAtom ELSE mol.atoms[i]]]

\* the boundary atoms removed with the rest instead of capped
KeptAtoms_selected_only(mol, atom_idxs_subgraph) ==
    {i \in AtomIdxs(mol) : i \in Range(atom_idxs_subgraph)}

\* the atoms the RemoveAtom loop keeps
KeptAtoms(mol, atom_idxs_subgraph) ==
    {i \in AtomIdxs(mol) : i \in Range(atom_idxs_subgraph) \/ mol.atoms[i].sym = "*"}

\* the RemoveAtom loop: the atoms kept are renumbered in order, the bonds of a
\* removed atom go with it and the other bonds keep their order and direction
RemoveAtoms(mol, atom_idxs_subgraph) ==
    LET keep == KeptAtoms(mol, atom_idxs_subgraph)
        new(i) == Cardinality({k \in keep : k <= i})
        old(n) == CHOOSE i \in keep : new(i) = n
        kept(b) == b.a1 \in keep /\ b.a2 \in keep
        bs == SelectSeq(mol.bonds, kept)
    IN [atoms |-> [n \in 1 .. Cardinality(keep) |-> mol.atoms[old(n)]],
        bonds |-> [k \in 1 .. Len(bs) |-> Bond(new(bs[k].a1), new(bs[k].a2), bs[k].order)]]

\* dummies: the wildcard atoms of mol_out, ascending
Dummies(mol_out) ==
    LET isd(i) == IsDummy(mol_out, i)
    IN SelectSeq([i \in AtomIdxs(mol_out) |-> i], isd)

\* degree_atoms that counts the wildcard neighbours of a wildcard too
DegreeAtoms_counting_dummies(mol_out) ==
    LET keys == {n \in AtomIdxs(mol_out) : \E d \in Neighbors(mol_out, n) : IsDummy(mol_out, d)}
    IN [n \in keys |-> Cardinality({d \in Neighbors(mol_out, n) : IsDummy(mol_out, d)})]

\* degree_atoms: for every wildcard, every neighbour that is no wildcard counts one
DegreeAtoms(mol_out) ==
    LET keys == {n \in AtomIdxs(mol_out) :
                    /\ ~IsDummy(mol_out, n)
                    /\ \E d \in Neighbors(mol_out, n) : IsDummy(mol_out, d)}
    IN [n \in keys |-> Cardinality({d \in Neighbors(mol_out, n) : IsDummy(mol_out, d)})]

RECURSIVE BondTypesFrom(_, _, _)
BondTypesFrom(mol_out, k, acc) ==
    IF k > Len(mol_out.bonds) THEN acc
    ELSE LET b == mol_out.bonds[k]
             key == IF IsDummy(mol_out, b.a1) THEN b.a2
                    ELSE IF IsDummy(mol_out, b.a2) THEN b.a1
                    ELSE 0
             acc1 == IF key = 0 THEN acc
                     ELSE IF key \in DOMAIN acc
                          THEN [acc EXCEPT ![key] = Append(@, b.order)]
                          ELSE acc @@ (key :> <<b.order>>)
         IN BondTypesFrom(mol_out, k + 1, acc1)

\* bond_types: keyed by the end atom when the begin atom is a wildcard, else by
\* the begin atom when the end atom is a wildcard
BondTypes(mol_out) == BondTypesFrom(mol_out, 1, <<>>)

\* Chem.rdmolops.Kekulize raises on an atom marked aromatic that is in no ring
KekulizeFails(mol_out) ==
    \E i \in AtomIdxs(mol_out) : mol_out.atoms[i].arom /\ ~InRing(mol_out, i)

Perms(n) == {p \in [1 .. n -> 1 .. n] : \A i, j \in 1 .. n : p[i] = p[j] => i = j}

\* the molecule with atom i renumbered p[i], as kekule SMILES writes it: element
\* and hydrogens of each atom, the bonds as unordered pairs with their order
Relabel(mol, p) ==
    LET inv(n) == CHOOSE i \in AtomIdxs(mol) : p[i] = n
        lo(b) == IF p[b.a1] < p[b.a2] THEN p[b.a1] ELSE p[b.a2]
        hi(b) == IF p[b.a1] < p[b.a2] THEN p[b.a2] ELSE p[b.a1]
    IN [atoms |-> [n \in AtomIdxs(mol) |-> <<mol.atoms[inv(n)].sym, mol.atoms[inv(n)].h>>],
        bonds |-> {<<lo(mol.bonds[k]), hi(mol.bonds[k]), mol.bonds[k].order>> : k \in BondIdxs(mol)}]

\* one canonical member of the molecule's isomorphism class, the same for every
\* numbering of its atoms
CanonicalForm(mol) ==
    LET class == {Relabel(mol, p) : p \in Perms(Len(mol.atoms))}
    IN CHOOSE g \in class : TRUE

\* mol_out of get_substructure: the boundary atoms replaced, the rest removed
MolOut(mol, idxs_edges_subgraph) ==
    LET atom_idxs_subgraph == AtomIdxsSubgraph(mol, idxs_edges_subgraph)
    IN RemoveAtoms(ReplaceAtoms(mol, AtomsToDummy(mol, atom_idxs_subgraph)), atom_idxs_subgraph)

\* the molecules of the inputs and their fragments, and their canonical forms,
\* computed once
KnownMols ==
    UNION {{m} \cup {MolOut(m, SortedSeq(S)) : S \in SUBSET BondIdxs(m) \ {{}}} : m \in Parents}
CanonicalForms == [m \in KnownMols |-> CanonicalForm(m)]

\* Chem.MolToSmiles(mol, kekuleSmiles=True)
MolToSmiles(mol) == Memo(CanonicalForms, mol, CanonicalForm(mol))

\* the parent molecule had the ReplaceAtom loop edited it in place
ParentAfter_in_place(mol, idxs_edges_subgraph) ==
    ReplaceAtoms(mol, AtomsToDummy(mol, AtomIdxsSubgraph(mol, idxs_edges_subgraph)))

\* the parent molecule after an extraction: get_substructure edits copies
\* (Chem.EditableMol(mol)) and rebinds its local name only
ParentAfter(mol, idxs_edges_subgraph) == mol

\* the dictionary get_substructure returns
Lib(mol_out, degree_atoms) ==
    [smiles |-> MolToSmiles(mol_out),
     mol |-> mol_out,
     bond_types |-> BondTypes(mol_out),
     degree_atoms |-> degree_atoms,
     valence |-> SumSet(degree_atoms, DOMAIN degree_atoms),
     atoms_available |-> Cardinality(DOMAIN degree_atoms),
     dummies |-> Dummies(mol_out)]

\* the dictionary built although Kekulize raised
LibOrNone_never_failing(mol_out) == Lib(mol_out, DegreeAtoms(mol_out))

\* None when Kekulize raises on mol_out
LibOrNone(mol_out) ==
    IF KekulizeFails(mol_out) THEN None ELSE Lib(mol_out, DegreeAtoms(mol_out))

get_substructure(mol, idxs_edges_subgraph) == LibOrNone(MolOut(mol, idxs_edges_subgraph))

(***************************************************************************)
(* get_elements, calculate_exact_mass, round                               *)
(***************************************************************************)
Elements == {"C", "H", "N", "O", "P", "S", "*"}

\* get_elements: Chem.AddHs, then one count per atom symbol
get_elements(mol) ==
    [e \in Elements |->
        IF e = "H"
        THEN SumSet([i \in AtomIdxs(mol) |-> mol.atoms[i].h], AtomIdxs(mol))
             + Cardinality({i \in AtomIdxs(mol) : mol.atoms[i].sym = "H"})
        ELSE Cardinality({i \in AtomIdxs(mol) : mol.atoms[i].sym = e})]

\* exact_mass_elements, in units of 1e-6 Da (the wildcard's entry is never read)
exact_mass_elements ==
    [e \in Elements \ {"*"} |->
        CASE e = "C" -> 12000000
          [] e = "H" -> 1007825
          [] e = "N" -> 14003074
          [] e = "O" -> 15994915
          [] e = "P" -> 30973763
          [] e = "S" -> 31972072]

\* calculate_exact_mass: the masses of all atoms but the wildcards, hydrogens added
calculate_exact_mass(mol) ==
    LET els == get_elements(mol)
    IN SumSet([e \in Elements \ {"*"} |-> els[e] * exact_mass_elements[e]], Elements \ {"*"})

\* decimal places of the model's mass unit
MassDigits == 6

\* cutting the digits after ndigits instead of rounding
RoundTo_truncating(x, ndigits, up) == (x \div Pow10(MassDigits - ndigits)) * Pow10(MassDigits - ndigits)

\* round(x, ndigits) of a mass x: the nearest multiple of 10^-ndigits; a decimal
\* tie falls where the float's binary value lies, up when up is TRUE
RoundTo(x, ndigits, up) ==
    LET unit == Pow10(MassDigits - ndigits)
        q == x \div unit
        r == x % unit
    IN IF 2 * r < unit THEN q * unit
       ELSE IF 2 * r > unit THEN (q + 1) * unit
       ELSE IF up THEN (q + 1) * unit ELSE q * unit

(***************************************************************************)
(* Tables and rows                                                         *)
(***************************************************************************)
\* pickle.dumps / pickle.loads of a payload
pickle_dumps(x) == <<"pickle", x>>
pickle_loads(b) == b[2]

\* the tier column exact_mass__<accuracy> of a substructure row
TierColumn(row, accuracy) ==
    CASE accuracy = "1" -> row.exact_mass__1
      [] accuracy = "0_1" -> row.exact_mass__0_1
      [] accuracy = "0_01" -> row.exact_mass__0_01
      [] accuracy = "0_001" -> row.exact_mass__0_001
      [] accuracy = "0_0001" -> row.exact_mass__0_0001

\* sub_smi_dict of update_substructure_database: the substructure row of a fragment
sub_smi_dict(lib, up) ==
    LET exact_mass == calculate_exact_mass(lib.mol)
        els == get_elements(lib.mol)
    IN [smiles |-> MolToSmiles(lib.mol),
        exact_mass |-> exact_mass,
        count |-> 0,
        length |-> SumSet(els, Elements \ {"*"}),
        valence |-> lib.valence,
        valence_atoms |-> lib.degree_atoms,
        atoms_available |-> lib.atoms_available,
        lib |-> pickle_dumps(lib),
        exact_mass__1 |-> RoundTo(exact_mass, 0, up),
        exact_mass__0_1 |-> RoundTo(exact_mass, 1, up),
        exact_mass__0_01 |-> RoundTo(exact_mass, 2, up),
        exact_mass__0_001 |-> RoundTo(exact_mass, 3, up),
        exact_mass__0_0001 |-> RoundTo(exact_mass, 4, up),
        C |-> els["C"], H |-> els["H"], N |-> els["N"],
        O |-> els["O"], P |-> els["P"], S |-> els["S"],
        heavy_atoms |-> SumSet(els, Elements \ {"H", "*"})]

\* record_dict of _filter_hmdb_records: the compound row of a record
record_dict(record) ==
    LET els == get_elements(record.mol)
    IN [hmdbid |-> record.accession,
        exact_mass |-> RoundTo(calculate_exact_mass(record.mol), 6, FALSE),
        C |-> els["C"], H |-> els["H"], N |-> els["N"],
        O |-> els["O"], P |-> els["P"], S |-> els["S"],
        smiles_rdkit_kek |-> MolToSmiles(record.mol)]

\* _filter_hmdb_records keeps a record that has a parsable structure of at
\* least four heavy atoms, all of them C, H, N, O, P or S, and no charge
KeepsRecord(record) ==
    /\ record.mol # None
    /\ NumHeavyAtoms(record.mol) >= 4
    /\ \A i \in AtomIdxs(record.mol) : record.mol.atoms[i].sym \in Elements \ {"*"}
    /\ ~record.charged

filter_records(records) == SelectSeq(records, KeepsRecord)

\* INSERT OR REPLACE: the last writer wins
InsertOrReplace(table, key, row) ==
    [k \in DOMAIN table \cup {key} |-> IF k = key THEN row ELSE table[k]]

\* INSERT OR IGNORE INTO a table keyed by key: an existing row stays
InsertOrIgnore(table, key, row) ==
    IF key \in DOMAIN table THEN table ELSE table @@ (key :> row)

(***************************************************************************)
(* get_sgs (method "exhaustive")                                           *)
(***************************************************************************)
\* the bonds of the set S hang together
ConnectedBonds(mol, S) ==
    \/ S = {}
    \/ LET k0 == CHOOSE k \in S : TRUE
           ends(k) == {mol.bonds[k].a1, mol.bonds[k].a2}
           grow[n \in 0 .. Cardinality(S)] ==
               IF n = 0 THEN {k0}
               ELSE grow[n - 1] \cup
                    {k \in S : \E j \in grow[n - 1] : ends(k) \cap ends(j) # {}}
       IN grow[Cardinality(S)] = S

RECURSIVE Pow2(_)
Pow2(n) == IF n = 0 THEN 1 ELSE 2 * Pow2(n - 1)

RECURSIVE PathsInOrder(_)
\* bond subsets as bond-index tuples, in a fixed order of enumeration
PathsInOrder(SS) ==
    IF SS = {} THEN <<>>
    ELSE LET code(S) == SumSet([k \in S |-> Pow2(k - 1)], S)
             m == CHOOSE S \in SS : \A T \in SS : code(S) <= code(T)
         IN <<SortedSeq(m)>> \o PathsInOrder(SS \ {m})

\* Chem.rdmolops.FindAllSubgraphsOfLengthMToN(mol, n_min, n_max): for each length
\* from n_min to n_max, the connected bond subsets of that length
get_sgs(mol, n_min, n_max) ==
    [n \in 1 .. (n_max - n_min + 1) |->
        PathsInOrder({S \in SUBSET BondIdxs(mol) :
                        /\ Cardinality(S) = n_min + n - 1
                        /\ ConnectedBonds(mol, S)})]

(***************************************************************************)
(* Inputs of the pipeline calls                                            *)
(***************************************************************************)
\* the record batches a call is given
Batches ==
    {<<rec_A>>, <<rec_A, rec_B>>, <<rec_C, rec_A2>>, <<rec_A2, rec_A>>,
     <<rec_F, rec_E, rec_B>>, <<rec_G, rec_B, rec_A2>>, <<rec_B, rec_C, rec_A>>}

\* the (n_min, n_max) a call is given
NRanges == {<<1, 1>>, <<1, 2>>, <<2, 2>>}

\* number of pipeline calls in a behaviour
MaxCalls == 2

(***************************************************************************)
(* The bond subsets of the inputs, computed once                           *)
(***************************************************************************)
SgsTable == [x \in Parents \X NRanges |-> get_sgs(x[1], x[2][1], x[2][2])]
\* get_sgs(mol, n_min, n_max)
Sgs(mol, n_min, n_max) == Memo(SgsTable, <<mol, <<n_min, n_max>>>>, get_sgs(mol, n_min, n_max))

(***************************************************************************)
(* update_substructure_database                                            *)
(***************************************************************************)
\* the two INSERT OR IGNORE of a fragment: its substructure row and its link
InsertRow(T, HMDB_ID, row) ==
    [T EXCEPT !.substructures = InsertOrIgnore(@, row.smiles, row),
              !.hmdbid_substructures = @ \cup {<<HMDB_ID, row.smiles>>},
              !.written = @ \cup {row}]

\* if lib is None: continue
InsertLib(T, HMDB_ID, lib, up) ==
    IF lib = None THEN T ELSE InsertRow(T, HMDB_ID, sub_smi_dict(lib, up))

\* the body of the loop over bond subsets
InsertSubstructure(T, HMDB_ID, mol, edge_idxs, up) ==
    InsertLib(T, HMDB_ID, get_substructure(mol, edge_idxs), up)

RECURSIVE InsertSubstructures(_, _, _, _, _)
InsertSubstructures(T, HMDB_ID, mol, paths, up) ==
    IF paths = <<>> THEN T
    ELSE InsertSubstructures(InsertSubstructure(T, HMDB_ID, mol, Head(paths), up),
                             HMDB_ID, mol, Tail(paths), up)

\* INSERT OR IGNORE INTO compounds
InsertCompound(T, rd) == [T EXCEPT !.compounds = InsertOrIgnore(@, rd.hmdbid, rd)]

\* the body of the loop over records: the compound row, then every bond subset
\* of get_sgs
InsertRecord(T, record, n_min, n_max, up) ==
    InsertSubstructures(InsertCompound(T, record_dict(record)), record.accession, record.mol,
                        Flatten(Sgs(record.mol, n_min, n_max)), up)

RECURSIVE InsertRecords(_, _, _, _, _)
InsertRecords(T, records, n_min, n_max, up) ==
    IF records = <<>> THEN T
    ELSE InsertRecords(InsertRecord(T, Head(records), n_min, n_max, up),
                       Tail(records), n_min, n_max, up)

Tables ==
    [compounds |-> compounds, substructures |-> substructures,
     hmdbid_substructures |-> hmdbid_substructures, written |-> {}]

\* conn.commit(): the tables of the connection become the store
Commit(T) ==
    /\ compounds' = T.compounds
    /\ substructures' = T.substructures
    /\ hmdbid_substructures' = T.hmdbid_substructures
    /\ written' = T.written

\* one call, its commit included
update_substructure_database(records, n_min, n_max) ==
    /\ nCalls < MaxCalls
    /\ Commit(InsertRecords(Tables, filter_records(records), n_min, n_max, fp))
    /\ last' = [op |-> "update_substructure_database",
                args |-> <<records, n_min, n_max>>,
                again |-> (last.op = "update_substructure_database"
                           /\ last.args = <<records, n_min, n_max>>),
                raised |-> FALSE]
    /\ nCalls' = nCalls + 1
    /\ UNCHANGED <<fp, query, extractVars, buildVars>>

(***************************************************************************)
(* update_mfrontier_database (mfrontier_funcs.py)                          *)
(***************************************************************************)
\* the (atom, bond) pairs in the order get_substructure_bond_idx visits them
AtomBondPairs(ref_mol) ==
    LET incident(i) ==
            LET at(k) == i \in {ref_mol.bonds[k].a1, ref_mol.bonds[k].a2}
            IN SelectSeq([k \in BondIdxs(ref_mol) |-> k], at)
    IN Flatten([i \in AtomIdxs(ref_mol) |-> [n \in 1 .. Len(incident(i)) |-> <<i, incident(i)[n]>>]])

RECURSIVE BondIdxFrom(_, _, _, _)
BondIdxFrom(ref_mol, atom_idx, pairs, bond_idx) ==
    IF pairs = <<>> THEN bond_idx
    ELSE LET i == Head(pairs)[1]
             k == Head(pairs)[2]
             take == /\ i \in atom_idx
                     /\ ref_mol.bonds[k].a1 \in atom_idx
                     /\ ref_mol.bonds[k].a2 \in atom_idx
                     /\ k \notin Range(bond_idx)
         IN BondIdxFrom(ref_mol, atom_idx, Tail(pairs),
                        IF take THEN Append(bond_idx, k) ELSE bond_idx)

\* get_substructure_bond_idx: match is the toolkit's answer, [has, atom_idx];
\* the bonds of ref_mol between matched atoms, or None without a match
get_substructure_bond_idx(match, ref_mol) ==
    IF ~match.has THEN None
    ELSE [bond_idx |-> BondIdxFrom(ref_mol, match.atom_idx, AtomBondPairs(ref_mol), <<>>)]

\* lib of an entry's bonds, None when there is no match
FragmentAt(mol, edge_idxs) ==
    IF edge_idxs = None THEN None ELSE get_substructure(mol, edge_idxs.bond_idx)

\* lib of an entry of the SD file, None when the loop passes over the entry: it
\* is unreadable or fails sanitization, does not match the molecule, or its
\* fragment does not kekulize
FragmentOf(mol, entry) ==
    IF ~entry.readable THEN None
    ELSE FragmentAt(mol, get_substructure_bond_idx(entry.match, mol))

\* the least member of S, 0 if it has none
FirstOf(S) == IF S = {} THEN 0 ELSE CHOOSE n \in S : \A m \in S : n <= m

\* the first entry of the SD file that reaches the INSERT statements, 0 if none
FirstInserted(mol, suppl) == FirstOf({n \in DOMAIN suppl : FragmentOf(mol, suppl[n]) # None})

\* the INSERTs of entry n.  The fragment's row is inserted; the link INSERT that
\* follows names the column smiles_rdkit, which the table made by
\* create_compound_database does not have, so it raises before any commit
MfrontierInserts(mol, HMDB_ID, suppl, n) ==
    /\ written' = IF n = 0 THEN {} ELSE {sub_smi_dict(FragmentOf(mol, suppl[n]), fp)}
    /\ last' = [op |-> "update_mfrontier_database",
                args |-> <<mol, HMDB_ID, suppl>>,
                again |-> FALSE,
                raised |-> (n # 0)]

\* one call
update_mfrontier_database(mol, HMDB_ID, suppl) ==
    /\ nCalls < MaxCalls
    /\ MfrontierInserts(mol, HMDB_ID, suppl, FirstInserted(mol, suppl))
    /\ nCalls' = nCalls + 1
    /\ UNCHANGED <<compounds, substructures, hmdbid_substructures, fp, query, extractVars, buildVars>>

Match(atom_idx) == [has |-> TRUE, atom_idx |-> atom_idx]
NoMatch == [has |-> FALSE, atom_idx |-> {}]
Entry(readable, match) == [readable |-> readable, match |-> match]

\* the SD files a call is given
Suppls ==
    {<<>>,
     <<Entry(FALSE, NoMatch), Entry(TRUE, NoMatch)>>,
     <<Entry(TRUE, NoMatch), Entry(TRUE, Match({2, 3})), Entry(TRUE, Match({1, 2}))>>,
     <<Entry(TRUE, Match({1, 2, 3}))>>}

\* the molecules a call is given, with their HMDB_ID property
MfrontierMols == {<<mol_CCCO, "A">>, <<mol_C1CNC1, "NA1">>, <<mol_c1ccoc1, "F">>}

(***************************************************************************)
(* SubstructureDb: the queries                                             *)
(***************************************************************************)
RECURSIVE Join(_, _)
\* sep.join(strs)
Join(sep, strs) ==
    IF strs = <<>> THEN ""
    ELSE IF Len(strs) = 1 THEN strs[1]
    ELSE strs[1] \o sep \o Join(sep, Tail(strs))

\* the literals between the parentheses of " WHERE HMDBID in ('%s')" %
\* (", ".join(map(str, cpds))): the quotes enclose the whole join
InList(cpds) == {Join(", ", cpds)}

select_compounds(cpds) ==
    IF Len(cpds) > 0
    THEN {compounds[id] : id \in {i \in DOMAIN compounds : i \in InList(cpds)}}
    ELSE Range(compounds)

\* select_mass_values with valence < max_valence
select_mass_values_below(accuracy, heavy_atoms, max_valence, masses) ==
    LET filter_mass == masses.list /\ Len(masses.values) > 0
        records == {r \in Range(substructures) :
                      /\ r.valence < max_valence
                      /\ r.heavy_atoms \in Range(heavy_atoms)
                      /\ filter_mass => r.exact_mass__1 \in Range(masses.values)}
    IN SortedSeq({TierColumn(r, accuracy) : r \in records})

\* select_mass_values; masses is [list, values]: list tells type(masses) == list
select_mass_values(accuracy, heavy_atoms, max_valence, masses) ==
    LET filter_mass == masses.list /\ Len(masses.values) > 0
        records == {r \in Range(substructures) :
                      /\ r.valence <= max_valence
                      /\ r.heavy_atoms \in Range(heavy_atoms)
                      /\ filter_mass => r.exact_mass__1 \in Range(masses.values)}
    IN SortedSeq({TierColumn(r, accuracy) : r \in records})

\* the 1000000 of tolerance = (exact_mass / 1000000) * ppm
Million == 1000000

\* select_ecs with a window that includes its edges
select_ecs_inclusive(exact_mass, heavy_atoms, accuracy, ppm) ==
    LET T == ppm[1]
        num == (exact_mass % Million) * T
        whole == (exact_mass \div Million) * T + (num \div Million)
        mass_statement(v) ==
            IF ppm = <<>> THEN v = exact_mass
            ELSE Abs(v - exact_mass) <= whole
        records == {r \in Range(substructures) :
                      /\ r.heavy_atoms \in Range(heavy_atoms)
                      /\ mass_statement(TierColumn(r, accuracy))}
    IN {<<r.C, r.H, r.N, r.O, r.P, r.S>> : r \in records}

\* select_ecs; ppm is <<>> for None and <<T>> for a tolerance of T ppm.
\* tolerance = (exact_mass / 1000000) * ppm is kept exact as whole + part / 10^6
select_ecs(exact_mass, heavy_atoms, accuracy, ppm) ==
    LET T == ppm[1]
        num == (exact_mass % Million) * T
        whole == (exact_mass \div Million) * T + (num \div Million)
        part == num % Million
        \* d < tolerance, for an integer d
        below(d) == d < whole \/ (d = whole /\ part > 0)
        mass_statement(v) ==
            IF ppm = <<>> THEN v = exact_mass
            ELSE below(v - exact_mass) /\ below(exact_mass - v)
        records == {r \in Range(substructures) :
                      /\ r.heavy_atoms \in Range(heavy_atoms)
                      /\ mass_statement(TierColumn(r, accuracy))}
    IN {<<r.C, r.H, r.N, r.O, r.P, r.S>> : r \in records}

RECURSIVE SelectSubStructuresFrom_skipping(_, _, _)
\* select_sub_structures that passes over a composition without a row
SelectSubStructuresFrom_skipping(l_atoms, i, subsets) ==
    IF i > Len(l_atoms) THEN subsets
    ELSE LET records == {r.lib : r \in {x \in Range(substructures) :
                            <<x.C, x.H, x.N, x.O, x.P, x.S>> = l_atoms[i]}}
         IN IF records = {} THEN SelectSubStructuresFrom_skipping(l_atoms, i + 1, subsets)
            ELSE SelectSubStructuresFrom_skipping(l_atoms, i + 1,
                     Append(subsets, {pickle_loads(b) : b \in records}))

RECURSIVE SelectSubStructuresFrom(_, _, _)
SelectSubStructuresFrom(l_atoms, i, subsets) ==
    IF i > Len(l_atoms) THEN subsets
    ELSE LET records == {r.lib : r \in {x \in Range(substructures) :
                            <<x.C, x.H, x.N, x.O, x.P, x.S>> = l_atoms[i]}}
         IN IF records = {} THEN <<>>
            ELSE SelectSubStructuresFrom(l_atoms, i + 1,
                     Append(subsets, {pickle_loads(b) : b \in records}))

\* select_sub_structures: one set of payloads per composition, [] at the first
\* composition without a row
select_sub_structures(l_atoms) == SelectSubStructuresFrom(l_atoms, 1, <<>>)

(***************************************************************************)
(* Inputs of the queries                                                   *)
(***************************************************************************)
NoQuery == [op |-> "none"]

CpdsLists == {<<>>, <<"A">>, <<"C">>, <<"A", "B">>, <<"B", "C", "A">>, <<"Z">>}
Accuracies == {"1", "0_1", "0_01", "0_001", "0_0001"}
HeavyAtomsLists == {<<2>>, <<3>>, <<2, 3>>}
MaxValences == {1, 2}
MassesArgs ==
    {[list |-> FALSE, values |-> <<>>], [list |-> TRUE, values |-> <<>>],
     [list |-> TRUE, values |-> <<29000000>>],
     [list |-> TRUE, values |-> <<28030000, 29000000, 45030000>>]}
\* (exact_mass, ppm): tier values, a full-precision mass, and windows whose edge
\* is a tier value
EcsTargets ==
    {<<29000000, <<>>>>, <<29039100, <<>>>>, <<29039125, <<>>>>, <<28030000, <<>>>>,
     <<25000000, <<160000>>>>, <<32000000, <<125000>>>>, <<29039100, <<5>>>>,
     <<29039125, <<0>>>>}
LAtoms ==
    {<<>>, <<<<2, 5, 0, 0, 0, 0>>>>, <<<<2, 4, 0, 0, 0, 0>>, <<2, 5, 0, 0, 0, 0>>>>,
     <<<<2, 4, 0, 0, 0, 0>>, <<9, 9, 9, 9, 9, 9>>, <<2, 5, 0, 0, 0, 0>>>>,
     <<<<1, 3, 0, 1, 0, 0>>, <<1, 3, 0, 1, 0, 0>>>>, <<<<9, 9, 9, 9, 9, 9>>>>}

\* A query reads the store and leaves it as it is: the states reached are the same
\* whether or not another query came before, and a behaviour makes one query
SelectCompounds(cpds) ==
    /\ query = NoQuery
    /\ query' = [op |-> "select_compounds", cpds |-> cpds, result |-> select_compounds(cpds)]
    /\ UNCHANGED <<compounds, substructures, hmdbid_substructures, fp, written, last, nCalls, extractVars, buildVars>>

SelectMassValues(accuracy, heavy_atoms, max_valence, masses) ==
    /\ query = NoQuery
    /\ query' = [op |-> "select_mass_values", accuracy |-> accuracy,
                 heavy_atoms |-> heavy_atoms, max_valence |-> max_valence, masses |-> masses,
                 result |-> select_mass_values(accuracy, heavy_atoms, max_valence, masses)]
    /\ UNCHANGED <<compounds, substructures, hmdbid_substructures, fp, written, last, nCalls, extractVars, buildVars>>

SelectEcs(exact_mass, heavy_atoms, accuracy, ppm) ==
    /\ query = NoQuery
    /\ query' = [op |-> "select_ecs", exact_mass |-> exact_mass, heavy_atoms |-> heavy_atoms,
                 accuracy |-> accuracy, ppm |-> ppm,
                 result |-> select_ecs(exact_mass, heavy_atoms, accuracy, ppm)]
    /\ UNCHANGED <<compounds, substructures, hmdbid_substructures, fp, written, last, nCalls, extractVars, buildVars>>

SelectSubStructures(l_atoms) ==
    /\ query = NoQuery
    /\ query' = [op |-> "select_sub_structures", l_atoms |-> l_atoms,
                 result |-> select_sub_structures(l_atoms)]
    /\ UNCHANGED <<compounds, substructures, hmdbid_substructures, fp, written, last, nCalls, extractVars, buildVars>>

NoCall == [op |-> "none", args |-> <<>>, again |-> FALSE, raised |-> FALSE]

\* no call is being followed
NoConn == [open |-> FALSE, state |-> "none"]

\* no candidate is being persisted: nothing to insert, no row awaiting its
\* artifact, no row committed
NoBlock == [todo |-> <<>>, dumping |-> FALSE, committed |-> {}, commits |-> 0]

\* a table that does not exist
NoTable == [exists |-> FALSE]

\* no helper table exists
NoHelpers == [unique_hmdbid |-> NoTable, filtered_hmdbid_substructures |-> NoTable, calls |-> 0]

InitBuild ==
    /\ conn = NoConn
    /\ block = NoBlock
    /\ helpers = NoHelpers
    /\ pc = "idle"
    /\ templates = <<>>
    /\ template = <<>>
    /\ geng_out = <<>>
    /\ RI_out = <<>>
    /\ mappings = <<>>
    /\ subgraphs = <<>>
    /\ id_pkl = 0
    /\ subgraphs_table = {}
    /\ pkls = <<>>
    /\ geng_runs = <<>>
    /\ RI_all = <<>>
    /\ folded = <<>>

\* the store as create_compound_database leaves it: three empty tables
InitStore ==
    /\ compounds = <<>>
    /\ substructures = <<>>
    /\ hmdbid_substructures = {}
    /\ fp \in BOOLEAN
    /\ written = {}
    /\ last = NoCall
    /\ query = NoQuery
    /\ nCalls = 0

Init ==
    /\ InitStore
    /\ InitBuild
    /\ parent = Mol(<<>>, <<>>)
    /\ extracted = <<>>

Next ==
    \/ \E records \in Batches, r \in NRanges :
            update_substructure_database(records, r[1], r[2])
    \/ \E m \in MfrontierMols, suppl \in Suppls :
            update_mfrontier_database(m[1], m[2], suppl)

Spec == Init /\ [][Next]_vars

\* the store is populated by one call of the pipeline and then queried
Populate(records, n_min, n_max) ==
    /\ nCalls = 0
    /\ query = NoQuery
    /\ update_substructure_database(records, n_min, n_max)

NextQuery ==
    \/ \E records \in Batches, r \in NRanges : Populate(records, r[1], r[2])
    \/ \E cpds \in CpdsLists : SelectCompounds(cpds)
    \/ \E accuracy \in Accuracies, heavy_atoms \in HeavyAtomsLists,
          max_valence \in MaxValences, masses \in MassesArgs :
            SelectMassValues(accuracy, heavy_atoms, max_valence, masses)
    \/ \E t \in EcsTargets, heavy_atoms \in HeavyAtomsLists, accuracy \in Accuracies :
            SelectEcs(t[1], heavy_atoms, accuracy, t[2])
    \/ \E l_atoms \in LAtoms : SelectSubStructures(l_atoms)

SpecQuery == Init /\ [][NextQuery]_vars

(***************************************************************************)
(* generate_substructure_network                                           *)
(*                                                                         *)
(* The graph of networkx is [node, edge, raised]: node maps a node to its   *)
(* attributes, edge maps the set of an edge's endpoints (one endpoint for a *)
(* self-loop) to its attributes, and the attributes are <<>> (none) or      *)
(* <<w>> (weight w).  raised tells that an operation on the graph raised,   *)
(* which ends the loops.                                                    *)
(* A node is keyed by a compound id or by a SMILES string; the model tags   *)
(* the key with its kind, as no compound id reads as a SMILES string.       *)
(***************************************************************************)
CompoundNode(hmdbid) == <<"compound", hmdbid>>
SubstructureNode(smiles) == <<"substructure", smiles>>

\* nx.Graph()
EmptyGraph == [node |-> <<>>, edge |-> <<>>, raised |-> FALSE]

\* the elements of S in the order a cursor returns them
RECURSIVE SeqOf(_)
SeqOf(S) ==
    IF S = {} THEN <<>>
    ELSE LET x == CHOOSE y \in S : TRUE IN <<x>> \o SeqOf(S \ {x})

\* attributes a over attributes b, as dict.update does
UpdateAttr(b, a) == IF a = <<>> THEN b ELSE a

\* G.add_node(n, **attr)
add_node(G, n, attr) ==
    [G EXCEPT !.node = (n :> UpdateAttr(Memo(G.node, n, <<>>), attr)) @@ G.node]

\* the edge dictionary of G.add_edge(u, v, **attr)
EdgeAdded(edge, u, v, attr) ==
    ({u, v} :> UpdateAttr(Memo(edge, {u, v}, <<>>), attr)) @@ edge

\* G.add_edge(u, v, **attr): the endpoints become nodes if they are not
add_edge(G, u, v, attr) ==
    [add_node(add_node(G, u, <<>>), v, <<>>) EXCEPT !.edge = EdgeAdded(G.edge, u, v, attr)]

\* G.has_edge(u, v)
has_edge(G, u, v) == {u, v} \in DOMAIN G.edge

\* G[u][v]['weight'] += 1: KeyError on an edge without a weight
IncrementWeight(G, u, v) ==
    IF G.edge[{u, v}] = <<>> THEN [G EXCEPT !.raised = TRUE]
    ELSE [G EXCEPT !.edge[{u, v}] = <<G.edge[{u, v}][1] + 1>>]

\* the weight set to 1 whether or not the edge exists
AddOrIncrement_resetting(G, u, v) == add_edge(G, u, v, <<1>>)

\* if has_edge: weight += 1, else: add_edge(weight=1)
AddOrIncrement(G, u, v) ==
    IF has_edge(G, u, v) THEN IncrementWeight(G, u, v) ELSE add_edge(G, u, v, <<1>>)

\* G.adj[n]: the neighbours of n (n itself when it has a self-loop)
Adj(G, n) == {m \in DOMAIN G.node : {n, m} \in DOMAIN G.edge}

\* G.remove_node(n): the node and its edges
remove_node(G, n) ==
    [G EXCEPT !.node = [m \in DOMAIN G.node \ {n} |-> G.node[m]],
              !.edge = [e \in {d \in DOMAIN G.edge : n \notin d} |-> G.edge[e]]]

\* the self-loops left in the graph
RemoveSelfLoops_none(G) == G

\* G.remove_edges_from(nx.selfloop_edges(G))
RemoveSelfLoops(G) ==
    [G EXCEPT !.edge = [e \in {d \in DOMAIN G.edge : Cardinality(d) = 2} |-> G.edge[e]]]

\* G.remove_nodes_from(list(nx.isolates(G))): the nodes of degree 0
RemoveIsolates(G) ==
    [G EXCEPT !.node = [m \in {n \in DOMAIN G.node : \E e \in DOMAIN G.edge : n \in e} |->
                            G.node[m]]]

\* table unique_hmdbid: select distinct HMDBID from compounds
unique_hmdbid == DOMAIN compounds

\* COUNT(*) of the link rows of a substructure
LinkCount(smiles) == Cardinality({link \in hmdbid_substructures : link[2] = smiles})

\* the threshold not applied
filtered_hmdbid_substructures_unfiltered(min_node_weight) ==
    [smiles \in {link[2] : link \in hmdbid_substructures} |-> LinkCount(smiles)]

\* table filtered_hmdbid_substructures: group by smiles_rdkit_kek
\* having COUNT(*) >= min_node_weight
filtered_hmdbid_substructures(min_node_weight) ==
    [smiles \in {link[2] : link \in {l \in hmdbid_substructures : LinkCount(l[2]) >= min_node_weight}}
        |-> LinkCount(smiles)]

\* the loop add_node(substructure[0], weight=substructure[1])
RECURSIVE AddSubstructureNodes(_, _, _)
AddSubstructureNodes(G, filtered, smiles) ==
    IF smiles = <<>> \/ G.raised THEN G
    ELSE AddSubstructureNodes(add_node(G, SubstructureNode(Head(smiles)), <<filtered[Head(smiles)]>>),
                              filtered, Tail(smiles))

\* default mode, the loop over nodes: the new substructure against the ones before
RECURSIVE LinkToNodes(_, _, _)
LinkToNodes(G, nodes, v) ==
    IF nodes = <<>> \/ G.raised THEN G
    ELSE LinkToNodes(AddOrIncrement(G, Head(nodes), v), Tail(nodes), v)

\* default mode, the loop over the link rows of one compound
RECURSIVE LinkRows(_, _, _)
LinkRows(G, nodes, rows) ==
    IF rows = <<>> \/ G.raised THEN G
    ELSE LinkRows(LinkToNodes(G, nodes, SubstructureNode(Head(rows)[2])),
                  Append(nodes, SubstructureNode(Head(rows)[2])), Tail(rows))

\* the link rows whose substructure is in the filtered table
FilteredLinks(filtered) == {link \in hmdbid_substructures : link[2] \in DOMAIN filtered}

RECURSIVE default_substructure_network(_, _, _)
default_substructure_network(G, unique_hmdb_ids, filtered) ==
    IF unique_hmdb_ids = <<>> \/ G.raised THEN G
    ELSE default_substructure_network(
            LinkRows(G, <<>>, SeqOf({link \in FilteredLinks(filtered) :
                                        link[1] = Head(unique_hmdb_ids)})),
            Tail(unique_hmdb_ids), filtered)

\* extended mode, the loop add_node(unique_hmdb_id[0])
RECURSIVE AddCompoundNodes(_, _)
AddCompoundNodes(G, unique_hmdb_ids) ==
    IF unique_hmdb_ids = <<>> \/ G.raised THEN G
    ELSE AddCompoundNodes(add_node(G, CompoundNode(Head(unique_hmdb_ids)), <<>>),
                          Tail(unique_hmdb_ids))

\* extended mode, the loop add_edge(hmdbid_substructures[0], hmdbid_substructures[1])
RECURSIVE AddLinkEdges(_, _)
AddLinkEdges(G, links) ==
    IF links = <<>> \/ G.raised THEN G
    ELSE AddLinkEdges(add_edge(G, CompoundNode(Head(links)[1]), SubstructureNode(Head(links)[2]), <<>>),
                      Tail(links))

\* extended mode, the inner loop: for adj2 in adj[unique_hmdb_id]
RECURSIVE RedistributeInner(_, _, _)
RedistributeInner(G, adj1, adj2s) ==
    IF adj2s = <<>> \/ G.raised THEN G
    ELSE RedistributeInner(AddOrIncrement(G, adj1, Head(adj2s)), adj1, Tail(adj2s))

\* extended mode, the outer loop: for adj1 in adj[unique_hmdb_id].  The edges the
\* loops add join neighbours of the compound, so adj[unique_hmdb_id] stays as it is
RECURSIVE RedistributeOuter(_, _, _)
RedistributeOuter(G, adj1s, adj) ==
    IF adj1s = <<>> \/ G.raised THEN G
    ELSE RedistributeOuter(RedistributeInner(G, Head(adj1s), adj), Tail(adj1s), adj)

\* the two loops run over the neighbours adj of a compound
RedistributeOver(G, adj) == RedistributeOuter(G, adj, adj)

\* extended mode, the loop over compounds: redistribute, then remove_node
RECURSIVE Redistribute(_, _)
Redistribute(G, unique_hmdb_ids) ==
    IF unique_hmdb_ids = <<>> \/ G.raised THEN G
    ELSE Redistribute(
            remove_node(RedistributeOver(G, SeqOf(Adj(G, CompoundNode(Head(unique_hmdb_ids))))),
                        CompoundNode(Head(unique_hmdb_ids))),
            Tail(unique_hmdb_ids))

\* the compound nodes left in the graph
ExtendedTail_keeping_parents(G, unique_hmdb_ids, include_parents) == G

\* if not include_parents: redistribute and remove every compound node, then
\* remove the self-loops
ExtendedTail(G, unique_hmdb_ids, include_parents) ==
    IF include_parents THEN G ELSE RemoveSelfLoops(Redistribute(G, unique_hmdb_ids))

extended_substructure_network(G, unique_hmdb_ids, filtered, include_parents) ==
    ExtendedTail(AddLinkEdges(AddCompoundNodes(G, unique_hmdb_ids), SeqOf(FilteredLinks(filtered))),
                 unique_hmdb_ids, include_parents)

\* the table left in place
DropTableIfExists_kept(table) == table

\* DROP TABLE IF EXISTS
DropTableIfExists(table) == NoTable

\* create table ... as select ..., which raises on a table that exists
CreateTableAs(table, rows) ==
    IF table.exists THEN [table EXCEPT !.raised = TRUE]
    ELSE [exists |-> TRUE, rows |-> rows, raised |-> FALSE]

\* filter_hmdbid_substructures: the two helper tables dropped and created anew
filter_hmdbid_substructures(H, min_node_weight) ==
    [H EXCEPT !.unique_hmdbid = CreateTableAs(DropTableIfExists(@), unique_hmdbid),
              !.filtered_hmdbid_substructures =
                    CreateTableAs(DropTableIfExists(@),
                                  filtered_hmdbid_substructures(min_node_weight)),
              !.calls = @ + 1]

Methods == {"default", "extended", "parent_structure_linkage"}
MinNodeWeights == {1, 2, 3}

\* parent_structure_linkage handled as extended is
NetworkOf_parents_dropped(G, method, unique_hmdb_ids, filtered) ==
    CASE method = "default" -> default_substructure_network(G, unique_hmdb_ids, filtered)
      [] method \in {"extended", "parent_structure_linkage"} ->
            extended_substructure_network(G, unique_hmdb_ids, filtered, FALSE)
      [] OTHER -> G

\* the branch on method
NetworkOf(G, method, unique_hmdb_ids, filtered) ==
    CASE method = "default" -> default_substructure_network(G, unique_hmdb_ids, filtered)
      [] method = "extended" -> extended_substructure_network(G, unique_hmdb_ids, filtered, FALSE)
      [] method = "parent_structure_linkage" ->
            extended_substructure_network(G, unique_hmdb_ids, filtered, TRUE)
      [] OTHER -> G

\* the nodes of the filtered table, then the edges of the method
NetworkFrom(method, filtered) ==
    NetworkOf(AddSubstructureNodes(EmptyGraph, filtered, SeqOf(DOMAIN filtered)),
              method, SeqOf(unique_hmdbid), filtered)

\* if remove_isolated: remove the isolated nodes
Finish(G, remove_isolated) == IF remove_isolated THEN RemoveIsolates(G) ELSE G

generate_substructure_network(method, min_node_weight, remove_isolated) ==
    Finish(NetworkFrom(method, filtered_hmdbid_substructures(min_node_weight)), remove_isolated)

\* graph = db.generate_substructure_network(method, min_node_weight, remove_isolated)
NetworkCall(method, min_node_weight, remove_isolated) ==
    /\ query' = [op |-> "generate_substructure_network", method |-> method,
                 min_node_weight |-> min_node_weight, remove_isolated |-> remove_isolated,
                 result |-> generate_substructure_network(method, min_node_weight, remove_isolated)]
    /\ helpers' = filter_hmdbid_substructures(helpers, min_node_weight)
    /\ UNCHANGED <<compounds, substructures, hmdbid_substructures, fp, written, last, nCalls,
                   extractVars, txnVars, isoVars, persistVars>>

\* the first network built on the store
GenerateSubstructureNetwork(method, min_node_weight, remove_isolated) ==
    /\ query = NoQuery
    /\ NetworkCall(method, min_node_weight, remove_isolated)

\* the store is populated by one call of the pipeline, then a network is built
NextNetwork ==
    \/ \E records \in Batches, r \in NRanges : Populate(records, r[1], r[2])
    \/ \E method \in Methods, min_node_weight \in MinNodeWeights, remove_isolated \in BOOLEAN :
            GenerateSubstructureNetwork(method, min_node_weight, remove_isolated)

SpecNetwork == Init /\ [][NextNetwork]_vars

\* number of networks built in a behaviour of SpecHelper
MaxNetworkCalls == 2

\* a network built on a store on which networks may have been built before
GenerateNetworkAgain(method, min_node_weight, remove_isolated) ==
    /\ helpers.calls < MaxNetworkCalls
    /\ NetworkCall(method, min_node_weight, remove_isolated)

\* the store is populated by one call of the pipeline, then networks are built
NextHelper ==
    \/ \E records \in Batches, r \in NRanges : Populate(records, r[1], r[2])
    \/ \E method \in Methods, min_node_weight \in MinNodeWeights, remove_isolated \in BOOLEAN :
            GenerateNetworkAgain(method, min_node_weight, remove_isolated)

SpecHelper == Init /\ [][NextHelper]_vars

(***************************************************************************)
(* update_substructure_database, statement by statement                    *)
(*                                                                         *)
(* The call opens its own connection; its INSERTs go to the connection's    *)
(* transaction, which conn.commit() makes durable.  A call that does not    *)
(* reach the commit (an exception out of the loop, the process ending)      *)
(* leaves the connection behind, and SQLite rolls the transaction back.     *)
(***************************************************************************)
\* the durable tables
Durable == <<compounds, substructures, hmdbid_substructures>>

\* a commit after every record
DurableAfterRecord_committing(T) ==
    /\ compounds' = T.compounds
    /\ substructures' = T.substructures
    /\ hmdbid_substructures' = T.hmdbid_substructures

\* the durable tables after the INSERTs of a record: the loop body has no commit
DurableAfterRecord(T) == UNCHANGED <<compounds, substructures, hmdbid_substructures>>

\* conn = sqlite3.connect(db_out); cursor = conn.cursor()
Connect(records, n_min, n_max) ==
    /\ ~conn.open
    /\ nCalls < MaxCalls
    /\ conn' = [open |-> TRUE, state |-> "running", T |-> Tables,
                todo |-> filter_records(records), args |-> <<records, n_min, n_max>>,
                before |-> Durable, commits |-> 0]
    /\ UNCHANGED <<storeVars, extractVars, isoVars, persistVars, helperVars>>

\* the connection after one pass of the loop over records
AfterRecord(T) ==
    /\ conn' = [conn EXCEPT !.T = T, !.todo = Tail(conn.todo)]
    /\ DurableAfterRecord(T)

\* one pass of the loop over records
ProcessRecord ==
    /\ conn.open
    /\ conn.todo # <<>>
    /\ AfterRecord(InsertRecord(conn.T, Head(conn.todo), conn.args[2], conn.args[3], fp))
    /\ UNCHANGED <<fp, written, last, query, nCalls, extractVars, isoVars, persistVars, helperVars>>

\* conn.commit(); conn.close() after the loop
CommitAndClose ==
    /\ conn.open
    /\ conn.todo = <<>>
    /\ Commit(conn.T)
    /\ conn' = [conn EXCEPT !.open = FALSE, !.state = "returned", !.commits = @ + 1]
    /\ last' = [op |-> "update_substructure_database", args |-> conn.args,
                again |-> (last.op = "update_substructure_database" /\ last.args = conn.args),
                raised |-> FALSE]
    /\ nCalls' = nCalls + 1
    /\ UNCHANGED <<fp, query, extractVars, isoVars, persistVars, helperVars>>

\* the call ends before its commit
Abort ==
    /\ conn.open
    /\ conn' = [conn EXCEPT !.open = FALSE, !.state = "aborted"]
    /\ last' = [op |-> "update_substructure_database", args |-> conn.args,
                again |-> FALSE, raised |-> TRUE]
    /\ nCalls' = nCalls + 1
    /\ UNCHANGED <<compounds, substructures, hmdbid_substructures, fp, written, query,
                   extractVars, isoVars, persistVars, helperVars>>

NextTxn ==
    \/ \E records \in Batches, r \in NRanges : Connect(records, r[1], r[2])
    \/ ProcessRecord
    \/ CommitAndClose
    \/ Abort

SpecTxn == Init /\ [][NextTxn]_vars

(***************************************************************************)
(* create_isomorphism_database                                             *)
(*                                                                         *)
(* The graph generator and the matcher are external programs: what they     *)
(* print and how they exit is chosen among the outcomes listed below.  A    *)
(* line of the matcher is kept as what graph_info makes of its mapping, the *)
(* valence signature vn and the edge sequence es (several vertex mappings   *)
(* can give the same vn and es), or it is a line that is no mapping.  The   *)
(* matcher's output is held as runs [line, n] of n equal consecutive lines, *)
(* and one step of the model reads the lines of a run up to the line at     *)
(* which the batch is folded.                                               *)
(***************************************************************************)
\* if len(mappings) == 20000
BatchSize == 20000

Mapping(vn, es) == [kind |-> "mapping", vn |-> vn, es |-> es]
OtherLine == [kind |-> "other", vn |-> <<>>, es |-> <<>>]
Run(line, n) == [line |-> line, n |-> n]

\* number of lines of a sequence of runs
RECURSIVE RunsLen(_)
RunsLen(runs) == IF runs = <<>> THEN 0 ELSE Head(runs).n + RunsLen(Tail(runs))

\* k more lines equal to line at the end of runs
AppendLines(runs, line, k) ==
    IF k = 0 THEN runs
    ELSE IF runs # <<>> /\ runs[Len(runs)].line = line
         THEN [runs EXCEPT ![Len(runs)].n = @ + k]
         ELSE Append(runs, Run(line, k))

\* the first k lines of the first run taken away
DropLines(runs, k) ==
    IF Head(runs).n = k THEN Tail(runs) ELSE [runs EXCEPT ![1].n = @ - k]

\* s without the repetitions of its elements
RECURSIVE Distinct(_, _)
Distinct(s, acc) ==
    IF s = <<>> THEN acc
    ELSE Distinct(Tail(s), IF Head(s) \in Range(acc) THEN acc ELSE Append(acc, Head(s)))

\* the entry of a valence signature in a dictionary kept as a sequence of
\* [vn, frs] in insertion order; 0 if it has none
IndexOf(d, vn) == FirstOf({i \in DOMAIN d : d[i].vn = vn})

\* gi[0] of graph_info(p, sG, mappings): for every valence signature of the
\* batch the edge sequences of its mappings, each once
graph_info(batch) ==
    LET lines == [i \in DOMAIN batch |-> batch[i].line]
        vns == Distinct([i \in DOMAIN lines |-> lines[i].vn], <<>>)
        of(vn) == LET has(l) == l.vn = vn
                      sel == SelectSeq(lines, has)
                  IN Distinct([i \in DOMAIN sel |-> sel[i].es], <<>>)
    IN [i \in DOMAIN vns |-> [vn |-> vns[i], frs |-> of(vns[i])]]

\* every es appended, present or not
AppendNew_unchecked(frs, ess) == frs \o ess

\* for es in gi[0][vn]: if es not in subgraphs[vn]: subgraphs[vn].append(es)
RECURSIVE AppendNew(_, _)
AppendNew(frs, ess) ==
    IF ess = <<>> THEN frs
    ELSE AppendNew(IF Head(ess) \in Range(frs) THEN frs ELSE Append(frs, Head(ess)), Tail(ess))

\* if vn not in subgraphs: subgraphs[vn] = gi[0][vn], else the loop of AppendNew
FoldSignature(acc, entry, i) ==
    IF i = 0 THEN Append(acc, entry)
    ELSE [acc EXCEPT ![i].frs = AppendNew(@, entry.frs)]

\* for vn in gi[0]
RECURSIVE FoldInfo(_, _)
FoldInfo(acc, gi) ==
    IF gi = <<>> THEN acc
    ELSE FoldInfo(FoldSignature(acc, Head(gi), IndexOf(acc, Head(gi).vn)), Tail(gi))

\* a batch folded into the accumulator
Fold(acc, batch) == FoldInfo(acc, graph_info(batch))

\* the batch kept after its fold
AfterFold_kept(batch) == batch

\* mappings = [] after the fold
AfterFold(batch) == <<>>

RECURSIVE SetDefaultPath_overwriting(_, _), SetDefaultPath(_, _)
RECURSIVE PrefixTree(_, _)

\* parent[e] = {} in place of setdefault: the subtree under e is lost
SetDefaultPath_overwriting(tree, fr) ==
    IF fr = <<>> THEN tree
    ELSE (Head(fr) :> SetDefaultPath_overwriting(<<>>, Tail(fr))) @@ tree

\* the prefix tree with the path fr: parent = parent.setdefault(e, {})
SetDefaultPath(tree, fr) ==
    IF fr = <<>> THEN tree
    ELSE (Head(fr) :> SetDefaultPath(Memo(tree, Head(fr), <<>>), Tail(fr))) @@ tree

\* root = {} inside the loop over the edge sequences: the tree of the last one
PrefixTree_root_reset(root, frs) ==
    IF frs = <<>> THEN root ELSE SetDefaultPath(<<>>, frs[Len(frs)])

\* root = {}; for fr in subgraphs[vn]: the path of fr
PrefixTree(root, frs) ==
    IF frs = <<>> THEN root ELSE PrefixTree(SetDefaultPath(root, Head(frs)), Tail(frs))

\* str(x)
str(x) == <<"str", x>>

\* vt = tuple([sum(v) for v in eval(vn)])
SumSeq(v) == SumSet(v, DOMAIN v)
ValenceSums(vn) == [i \in DOMAIN vn |-> SumSeq(vn[i])]

\* nx.read_graph6: nodes and edges of the graphs the generator prints
Graph6 ==
    [g \in {"A_", "BW", "Bw"} |->
        CASE g = "A_" -> [n_nodes |-> 2, n_edges |-> 1]
          [] g = "BW" -> [n_nodes |-> 3, n_edges |-> 2]
          [] g = "Bw" -> [n_nodes |-> 3, n_edges |-> 3]]

\* the row of table subgraphs for the entry of a valence signature
SubgraphsRow(id, entry, line_geng, p) ==
    [id_pkl |-> id,
     n_graphs |-> Len(entry.frs),
     graph6 |-> line_geng,
     k |-> Len(p),
     k_partite |-> str(p),
     k_valences |-> str(ValenceSums(entry.vn)),
     nodes_valences |-> str(entry.vn),
     n_nodes |-> Graph6[line_geng].n_nodes,
     n_edges |-> Graph6[line_geng].n_edges]

\* PRIMARY KEY (graph6, k_partite, nodes_valences)
KeyOf(row) == <<row.graph6, row.k_partite, row.nodes_valences>>

\* the row and the artifact written without the counter advancing
InsertSubgraph_id_kept(P, row, tree) ==
    IF \E r \in P.table : KeyOf(r) = KeyOf(row) THEN [P EXCEPT !.raised = TRUE]
    ELSE [P EXCEPT !.table = @ \cup {row}, !.pkls = Append(@, tree)]

\* INSERT INTO subgraphs, which raises on a key the table has, then pickle.dump
InsertSubgraph(P, row, tree) ==
    IF \E r \in P.table : KeyOf(r) = KeyOf(row) THEN [P EXCEPT !.raised = TRUE]
    ELSE [P EXCEPT !.id_pkl = row.id_pkl, !.table = @ \cup {row}, !.pkls = Append(@, tree)]

\* for vn in subgraphs: the tree, the row and the artifact of every signature
RECURSIVE Persist(_, _, _, _)
Persist(P, acc, line_geng, p) ==
    IF acc = <<>> \/ P.raised THEN P
    ELSE Persist(InsertSubgraph(P, SubgraphsRow(P.id_pkl + 1, Head(acc), line_geng, p),
                                PrefixTree(<<>>, Head(acc).frs)),
                 Tail(acc), line_geng, p)

\* the templates calculate_complete_multipartite_graphs yields: the block sizes p
\* of a complete multipartite graph G
Templates == {<<1, 1>>, <<1, 2>>}
TemplateLists == {<<<<1, 1>>>>, <<<<1, 1>>, <<1, 2>>>>, <<<<1, 2>>, <<1, 1>>>>}

\* len(G.nodes)
NumberOfNodes(p) == SumSeq(p)

\* what the generator may print for n vertices, and its exit status
GengOutcomes(n) ==
    LET lines == IF n = 2 THEN {<<>>, <<"A_">>} ELSE {<<>>, <<"BW">>, <<"BW", "Bw">>}
    IN {[status |-> s, lines |-> l] : s \in {0, 1}, l \in lines}

\* what the matcher may print for a candidate graph
Streams ==
    LET a == Mapping(<<<<1>>, <<1>>>>, <<1, 2>>)
        b == Mapping(<<<<1>>, <<1>>>>, <<1, 3>>)
        c == Mapping(<<<<2>>, <<1, 1>>>>, <<1, 2>>)
    IN {<<>>,
        <<Run(OtherLine, 1)>>,
        <<Run(a, 1), Run(b, 1), Run(a, 1)>>,
        <<Run(a, BatchSize)>>,
        <<Run(a, BatchSize + 1)>>,
        <<Run(a, BatchSize - 1), Run(b, 1), Run(OtherLine, 1), Run(a, 1), Run(c, 1)>>,
        <<Run(OtherLine, 1), Run(b, BatchSize), Run(c, BatchSize), Run(b, 1), Run(a, 1)>>}

\* DROP TABLE IF EXISTS subgraphs; CREATE TABLE subgraphs; id_pkl = 0
CreateIsomorphismDatabase(ts) ==
    /\ pc = "idle"
    /\ pc' = "template"
    /\ templates' = ts
    /\ id_pkl' = 0
    /\ subgraphs_table' = {}
    /\ pkls' = <<>>
    /\ UNCHANGED <<template, geng_out, RI_out, mappings, subgraphs, geng_runs, RI_all, folded>>
    /\ UNCHANGED <<storeVars, extractVars, txnVars, persistVars, helperVars>>

\* the next template: the generator is run and its output split into lines
RunGenerator(out) ==
    /\ pc = "template"
    /\ templates # <<>>
    /\ out \in GengOutcomes(NumberOfNodes(Head(templates)))
    /\ template' = Head(templates)
    /\ templates' = Tail(templates)
    /\ geng_out' = out.lines
    /\ geng_runs' = Append(geng_runs, [p |-> Head(templates), status |-> out.status,
                                       lines |-> out.lines])
    /\ pc' = "candidate"
    /\ UNCHANGED <<RI_out, mappings, subgraphs, id_pkl, subgraphs_table, pkls, RI_all, folded>>
    /\ UNCHANGED <<storeVars, extractVars, txnVars, persistVars, helperVars>>

\* the loop over the generator's lines is over
NextTemplate ==
    /\ pc = "candidate"
    /\ geng_out = <<>>
    /\ pc' = "template"
    /\ UNCHANGED <<templates, template, geng_out, RI_out, mappings, subgraphs, id_pkl,
                   subgraphs_table, pkls, geng_runs, RI_all, folded>>
    /\ UNCHANGED <<storeVars, extractVars, txnVars, persistVars, helperVars>>

\* the loop over the templates is over: conn.close()
CloseCatalog ==
    /\ pc = "template"
    /\ templates = <<>>
    /\ pc' = "done"
    /\ UNCHANGED <<templates, template, geng_out, RI_out, mappings, subgraphs, id_pkl,
                   subgraphs_table, pkls, geng_runs, RI_all, folded>>
    /\ UNCHANGED <<storeVars, extractVars, txnVars, persistVars, helperVars>>

\* the next candidate graph: the matcher is run; mappings = []; subgraphs = {}
RunMatcher(stream) ==
    /\ pc = "candidate"
    /\ geng_out # <<>>
    /\ RI_out' = stream
    /\ RI_all' = stream
    /\ mappings' = <<>>
    /\ subgraphs' = <<>>
    /\ folded' = <<>>
    /\ pc' = "lines"
    /\ UNCHANGED <<templates, template, geng_out, id_pkl, subgraphs_table, pkls, geng_runs>>
    /\ UNCHANGED <<storeVars, extractVars, txnVars, persistVars, helperVars>>

\* the number of lines equal to the first that are read before the length of
\* the batch is next BatchSize
LinesToRead(run, pending) ==
    IF pending < BatchSize /\ BatchSize - pending < run.n THEN BatchSize - pending ELSE run.n

\* the batch is full: it is folded and cleared
FoldFull(batch) ==
    /\ subgraphs' = Fold(subgraphs, batch)
    /\ folded' = Append(folded, batch)
    /\ mappings' = AfterFold(batch)

\* if len(mappings) == 20000, after the lines appended
AfterAppend(batch) ==
    IF RunsLen(batch) = BatchSize THEN FoldFull(batch)
    ELSE mappings' = batch /\ UNCHANGED <<subgraphs, folded>>

\* k lines equal to line are read: a mapping is appended to the batch
ReadMappings(line, k) ==
    /\ RI_out' = DropLines(RI_out, k)
    /\ IF line.kind = "mapping" THEN AfterAppend(AppendLines(mappings, line, k))
       ELSE UNCHANGED <<mappings, subgraphs, folded>>

\* passes of the loop over the matcher's lines
ReadLines ==
    /\ pc = "lines"
    /\ RI_out # <<>>
    /\ ReadMappings(Head(RI_out).line, LinesToRead(Head(RI_out), RunsLen(mappings)))
    /\ UNCHANGED <<pc, templates, template, geng_out, id_pkl, subgraphs_table, pkls,
                   geng_runs, RI_all>>
    /\ UNCHANGED <<storeVars, extractVars, txnVars, persistVars, helperVars>>

\* the rows and artifacts of the accumulator are written and committed
Persisted(P) ==
    /\ id_pkl' = P.id_pkl
    /\ subgraphs_table' = P.table
    /\ pkls' = P.pkls
    /\ pc' = IF P.raised THEN "raised" ELSE "candidate"

\* the accumulator after the last batch
Accumulated(acc) ==
    /\ subgraphs' = acc
    /\ Persisted(Persist([id_pkl |-> id_pkl, table |-> subgraphs_table, pkls |-> pkls,
                          raised |-> FALSE], acc, Head(geng_out), template))

\* the matcher's lines are read: if len(mappings) > 0 the last batch is folded,
\* then the signatures are persisted and committed
FinishCandidate ==
    /\ pc = "lines"
    /\ RI_out = <<>>
    /\ IF RunsLen(mappings) > 0
       THEN /\ Accumulated(Fold(subgraphs, mappings))
            /\ folded' = Append(folded, mappings)
       ELSE /\ Accumulated(subgraphs)
            /\ folded' = folded
    /\ geng_out' = Tail(geng_out)
    /\ UNCHANGED <<templates, template, RI_out, mappings, geng_runs, RI_all>>
    /\ UNCHANGED <<storeVars, extractVars, txnVars, persistVars, helperVars>>

NextIso ==
    \/ \E ts \in TemplateLists : CreateIsomorphismDatabase(ts)
    \/ \E out \in UNION {GengOutcomes(NumberOfNodes(p)) : p \in Templates} : RunGenerator(out)
    \/ NextTemplate
    \/ CloseCatalog
    \/ \E stream \in Streams : RunMatcher(stream)
    \/ ReadLines
    \/ FinishCandidate

SpecIso == Init /\ [][NextIso]_vars

(***************************************************************************)
(* SubstructureDb.k_configs on the catalog of a finished build             *)
(***************************************************************************)
\* SELECT id_pkl, nodes_valences FROM subgraphs: the rows as a scan of the
\* table reads them, in the order they were inserted
SelectSubgraphs ==
    LET ids == SortedSeq({row.id_pkl : row \in subgraphs_table})
    IN [i \in DOMAIN ids |-> CHOOSE row \in subgraphs_table : row.id_pkl = ids[i]]

\* the entry of a key the map has is kept
SetConfig_keeping(configs, key, id) == configs @@ (key :> id)

\* configs[key] = id
SetConfig(configs, key, id) == (key :> id) @@ configs

\* for record in records: configs[str(record[1])] = record[0]; nodes_valences
\* is a string and str() of a string is the string
RECURSIVE KConfigsFrom(_, _)
KConfigsFrom(records, configs) ==
    IF records = <<>> THEN configs
    ELSE KConfigsFrom(Tail(records),
                      SetConfig(configs, Head(records).nodes_valences, Head(records).id_pkl))

k_configs == KConfigsFrom(SelectSubgraphs, <<>>)

\* configs = db.k_configs() on the catalog the build has closed
KConfigs ==
    /\ pc = "done"
    /\ query = NoQuery
    /\ query' = [op |-> "k_configs", result |-> k_configs]
    /\ UNCHANGED <<compounds, substructures, hmdbid_substructures, fp, written, last, nCalls,
                   extractVars, buildVars>>

NextCatalog == NextIso \/ KConfigs

SpecCatalog == Init /\ [][NextCatalog]_vars

(***************************************************************************)
(* The persistence of a candidate's signatures, one statement at a time    *)
(***************************************************************************)
\* the block after the INSERT of a row that is committed at once
BlockAfterInsert_committing(b, table) ==
    [b EXCEPT !.dumping = TRUE, !.committed = table, !.commits = @ + 1]

\* the block after the INSERT of a row: the row awaits its artifact and
\* nothing is committed
BlockAfterInsert(b, table) == [b EXCEPT !.dumping = TRUE]

\* the accumulator after the last batch, as the loop over its signatures finds it
LastFold == IF RunsLen(mappings) > 0 THEN Fold(subgraphs, mappings) ELSE subgraphs

\* the matcher's lines are read: if len(mappings) > 0 the last batch is folded;
\* the loop over the signatures is next
BeginBlock ==
    /\ pc = "lines"
    /\ RI_out = <<>>
    /\ subgraphs' = LastFold
    /\ folded' = IF RunsLen(mappings) > 0 THEN Append(folded, mappings) ELSE folded
    /\ block' = [block EXCEPT !.todo = LastFold, !.dumping = FALSE]
    /\ pc' = "persist"
    /\ UNCHANGED <<templates, template, geng_out, RI_out, mappings, id_pkl, subgraphs_table,
                   pkls, geng_runs, RI_all>>
    /\ UNCHANGED <<storeVars, extractVars, txnVars, helperVars>>

\* id_pkl += 1; INSERT INTO subgraphs for the next signature
InsertRowStep ==
    /\ pc = "persist"
    /\ block.todo # <<>>
    /\ ~block.dumping
    /\ id_pkl' = id_pkl + 1
    /\ LET row == SubgraphsRow(id_pkl + 1, Head(block.todo), Head(geng_out), template)
       IN IF \E r \in subgraphs_table : KeyOf(r) = KeyOf(row)
          THEN pc' = "raised" /\ UNCHANGED <<subgraphs_table, block>>
          ELSE /\ subgraphs_table' = subgraphs_table \cup {row}
               /\ block' = BlockAfterInsert(block, subgraphs_table \cup {row})
               /\ pc' = pc
    /\ UNCHANGED <<templates, template, geng_out, RI_out, mappings, subgraphs, pkls, geng_runs,
                   RI_all, folded>>
    /\ UNCHANGED <<storeVars, extractVars, txnVars, helperVars>>

\* pickle.dump(root, <id_pkl>.pkl) for the row just inserted
DumpArtifact ==
    /\ pc = "persist"
    /\ block.dumping
    /\ pkls' = Append(pkls, PrefixTree(<<>>, Head(block.todo).frs))
    /\ block' = [block EXCEPT !.todo = Tail(@), !.dumping = FALSE]
    /\ UNCHANGED <<pc, templates, template, geng_out, RI_out, mappings, subgraphs, id_pkl,
                   subgraphs_table, geng_runs, RI_all, folded>>
    /\ UNCHANGED <<storeVars, extractVars, txnVars, helperVars>>

\* conn.commit() after the loop over the signatures; the next candidate
CommitBlock ==
    /\ pc = "persist"
    /\ block.todo = <<>>
    /\ block' = [block EXCEPT !.committed = subgraphs_table, !.commits = @ + 1]
    /\ geng_out' = Tail(geng_out)
    /\ pc' = "candidate"
    /\ UNCHANGED <<templates, template, RI_out, mappings, subgraphs, id_pkl, subgraphs_table,
                   pkls, geng_runs, RI_all, folded>>
    /\ UNCHANGED <<storeVars, extractVars, txnVars, helperVars>>

NextCommit ==
    \/ \E ts \in TemplateLists : CreateIsomorphismDatabase(ts)
    \/ \E out \in UNION {GengOutcomes(NumberOfNodes(p)) : p \in Templates} : RunGenerator(out)
    \/ NextTemplate
    \/ CloseCatalog
    \/ \E stream \in Streams : RunMatcher(stream)
    \/ ReadLines
    \/ BeginBlock
    \/ InsertRowStep
    \/ DumpArtifact
    \/ CommitBlock

SpecCommit == Init /\ [][NextCommit]_vars

(***************************************************************************)
(* SubstructureDb.paths and isomorphism_graphs                             *)
(***************************************************************************)
\* paths(tree, cur) over the keys ns of tree: for n, s in tree.items()
RECURSIVE paths(_, _), PathsOver(_, _, _)
PathsOver(tree, cur, ns) ==
    IF ns = <<>> THEN <<>>
    ELSE paths(tree[Head(ns)], Append(cur, Head(ns))) \o PathsOver(tree, cur, Tail(ns))

\* the paths paths(tree, cur) yields: cur for the empty tree, else the paths of
\* every subtree (the keys are taken in ascending order)
paths(tree, cur) ==
    IF DOMAIN tree = {} THEN <<cur>> ELSE PathsOver(tree, cur, SortedSeq(DOMAIN tree))

\* isomorphism_graphs(id_pkl): pickle.load of <id_pkl>.pkl, then its paths
isomorphism_graphs(id) == paths(pkls[id], <<>>)

\* the edge identifiers and the lengths of the mappings given to the tree
EdgeIds == {1, 2, 3}
MappingLengths == {0, 1, 2}

\* number of mappings inserted into a tree
MaxMappings == 3

\* the lists of at most MaxMappings mappings of one length
MappingLists ==
    UNION {UNION {[1 .. n -> [1 .. len -> EdgeIds]] : n \in 0 .. MaxMappings} :
              len \in MappingLengths}

\* the tree of the loop "for fr in subgraphs[vn]" is built and enumerated
EnumerateTree(frs) ==
    /\ query = NoQuery
    /\ query' = [op |-> "paths", frs |-> frs, tree |-> PrefixTree(<<>>, frs),
                 result |-> paths(PrefixTree(<<>>, frs), <<>>)]
    /\ UNCHANGED <<compounds, substructures, hmdbid_substructures, fp, written, last, nCalls,
                   extractVars, buildVars>>

NextTree == \E frs \in MappingLists : EnumerateTree(frs)

SpecTree == Init /\ [][NextTree]_vars

(***************************************************************************)
(* Extractions on one parent molecule                                      *)
(***************************************************************************)
\* the bond-index lists get_sgs hands to get_substructure for a molecule
ExtractIdxs(mol) == UNION {Range(Flatten(Sgs(mol, r[1], r[2]))) : r \in NRanges}

\* number of extractions in a behaviour
MaxExtractions == 3

\* lib = get_substructure(mol, edge_idxs), on the molecule the caller holds
GetSubstructure(idxs_edges_subgraph) ==
    /\ Len(extracted) < MaxExtractions
    /\ extracted' = Append(extracted, [idxs |-> idxs_edges_subgraph,
                                       result |-> get_substructure(parent, idxs_edges_subgraph)])
    /\ parent' = ParentAfter(parent, idxs_edges_subgraph)
    /\ UNCHANGED <<storeVars, buildVars>>

InitExtract ==
    /\ InitStore
    /\ InitBuild
    /\ parent \in {mol_CCCO, mol_C1CNC1, mol_c1ccoc1}
    /\ extracted = <<>>

NextExtract == \E idxs \in ExtractIdxs(parent) : GetSubstructure(idxs)

SpecExtract == InitExtract /\ [][NextExtract]_vars

(***************************************************************************)
(* get_substructure on any list of bonds of a molecule, connected or not   *)
(***************************************************************************)
\* CC(=O)O, acetic acid
mol_CC_O_O ==
    Mol(<<Atom("C", 3, FALSE), Atom("C", 0, FALSE), Atom("O", 0, FALSE), Atom("O", 1, FALSE)>>,
        <<Bond(1, 2, SINGLE), Bond(2, 3, DOUBLE), Bond(2, 4, SINGLE)>>)

\* the ascending lists of bonds of a molecule
BondLists(mol) == {SortedSeq(S) : S \in SUBSET BondIdxs(mol) \ {{}}}

\* number of extractions in a behaviour of SpecFragment
MaxFragments == 2

\* lib = get_substructure(mol, idxs_edges_subgraph) on a list of bonds
GetFragment(idxs_edges_subgraph) ==
    /\ Len(extracted) < MaxFragments
    /\ extracted' = Append(extracted, [idxs |-> idxs_edges_subgraph,
                                       result |-> get_substructure(parent, idxs_edges_subgraph)])
    /\ parent' = ParentAfter(parent, idxs_edges_subgraph)
    /\ UNCHANGED <<storeVars, buildVars>>

InitFragment ==
    /\ InitStore
    /\ InitBuild
    /\ parent \in {mol_CC_O_O, mol_C1CNC1, mol_c1ccoc1}
    /\ extracted = <<>>

NextFragment == \E idxs \in BondLists(parent) : GetFragment(idxs)

SpecFragment == InitFragment /\ [][NextFragment]_vars

(***************************************************************************)
(* Properties of the population pipeline (Spec)                            *)
(***************************************************************************)
\* the substructure rows in the store and the rows the last call built
RowsWritten == Range(substructures) \cup written

\* t is a multiple of unit and no multiple of unit is nearer to x
IsRoundingOf(t, x, unit) == t % unit = 0 /\ 2 * Abs(t - x) <= unit

\* C1: in every substructure row the pipelines write, the five tier columns are
\* the row's exact_mass rounded to 0, 1, 2, 3 and 4 decimal places; the mass
\* 180.063388 is rounded to 180.0, 180.1, 180.06, 180.063 and 180.0634
C1_TiersAreRoundedMass ==
    /\ \A row \in RowsWritten :
          /\ IsRoundingOf(row.exact_mass__1, row.exact_mass, 1000000)
          /\ IsRoundingOf(row.exact_mass__0_1, row.exact_mass, 100000)
          /\ IsRoundingOf(row.exact_mass__0_01, row.exact_mass, 10000)
          /\ IsRoundingOf(row.exact_mass__0_001, row.exact_mass, 1000)
          /\ IsRoundingOf(row.exact_mass__0_0001, row.exact_mass, 100)
    /\ <<RoundTo(180063388, 0, fp), RoundTo(180063388, 1, fp), RoundTo(180063388, 2, fp),
         RoundTo(180063388, 3, fp), RoundTo(180063388, 4, fp)>>
          = <<180000000, 180100000, 180060000, 180063000, 180063400>>

\* a stored row of mass 29.039125 whose tiers went down (29.0, 29.0, 29.039,
\* 29.0391) and up (29.04)
C1_Witness ==
    \E row \in Range(substructures) :
        /\ row.exact_mass = 29039125
        /\ row.exact_mass__1 = 29000000
        /\ row.exact_mass__0_01 = 29040000
        /\ row.exact_mass__0_0001 = 29039100

\* the bonds of a fragment between a wildcard and an atom that is none
OpenBonds(m) == {k \in BondIdxs(m) : IsDummy(m, m.bonds[k].a1) # IsDummy(m, m.bonds[k].a2)}

\* C2: in every substructure row, heavy_atoms is C + N + O + P + S, the atoms of
\* the fragment that are neither hydrogen nor wildcard, and valence is the sum
\* of the fragment's degree_atoms, the number of its bonds between a wildcard
\* and a non-wildcard atom
C2_HeavyAtomsAndValence ==
    \A row \in RowsWritten :
        LET lib == pickle_loads(row.lib)
            m == lib.mol
        IN /\ row.heavy_atoms = row.C + row.N + row.O + row.P + row.S
           /\ row.heavy_atoms = Cardinality({i \in AtomIdxs(m) : m.atoms[i].sym \notin {"H", "*"}})
           /\ row.valence = SumSet(lib.degree_atoms, DOMAIN lib.degree_atoms)
           /\ row.valence = Cardinality(OpenBonds(m))

\* a stored fragment of two atoms and two wildcards that has a bond between its
\* two wildcards beside its two open bonds
C2_Witness ==
    \E row \in Range(substructures) :
        LET m == pickle_loads(row.lib).mol
        IN /\ \E k \in BondIdxs(m) : IsDummy(m, m.bonds[k].a1) /\ IsDummy(m, m.bonds[k].a2)
           /\ row.valence = 2
           /\ row.heavy_atoms = 2

\* C3: an insert on an existing substructure key, compound id or link raises
\* nothing and changes no existing row, and a second run of
\* update_substructure_database over the same records leaves the three tables
\* as the first run left them
C3_FirstWriterWins ==
    [][/\ \A k \in DOMAIN substructures :
              k \in DOMAIN substructures' /\ substructures'[k] = substructures[k]
       /\ \A k \in DOMAIN compounds :
              k \in DOMAIN compounds' /\ compounds'[k] = compounds[k]
       /\ hmdbid_substructures \subseteq hmdbid_substructures'
       /\ last'.op = "update_substructure_database" => ~last'.raised
       /\ last'.again => /\ substructures' = substructures
                         /\ compounds' = compounds
                         /\ hmdbid_substructures' = hmdbid_substructures]_vars

\* after a second run over the same records, in which a row was built whose key
\* is held by a different row, and a compound whose id is held by another
C3_Witness ==
    /\ last.again
    /\ \E row \in written : row.smiles \in DOMAIN substructures /\ substructures[row.smiles] # row
    /\ \E i \in 1 .. Len(last.args[1]) :
          LET record == last.args[1][i]
          IN /\ KeepsRecord(record)
             /\ compounds[record.accession].smiles_rdkit_kek # MolToSmiles(record.mol)

(***************************************************************************)
(* Properties of the queries (SpecQuery)                                   *)
(***************************************************************************)
Composition(r) == <<r.C, r.H, r.N, r.O, r.P, r.S>>

\* the unit of a tier, in the model's mass unit
TierUnit(accuracy) ==
    CASE accuracy = "1" -> 1000000
      [] accuracy = "0_1" -> 100000
      [] accuracy = "0_01" -> 10000
      [] accuracy = "0_001" -> 1000
      [] accuracy = "0_0001" -> 100

ExactQuery == query.op = "select_ecs" /\ query.ppm = <<>>

\* C4: without ppm, select_ecs returns the compositions of the rows with a
\* listed heavy-atom count whose tier value is the target rounded to the tier,
\* whether or not the target was passed rounded
C4_MatchesRoundedTarget ==
    ExactQuery =>
        query.result =
            {Composition(r) : r \in {x \in Range(substructures) :
                /\ x.heavy_atoms \in Range(query.heavy_atoms)
                /\ IsRoundingOf(TierColumn(x, query.accuracy), query.exact_mass,
                                TierUnit(query.accuracy))}}

\* target - target * T / 10^6 < v < target + target * T / 10^6, for T >= 0, both
\* sides of |v - target| * 10^6 < target * T less (target \div 10^6) * T * 10^6
InsideWindow(v, target, T) ==
    LET e == Abs(v - target) - (target \div 1000000) * T
    IN e < 0 \/ (e < 2000 /\ e * 1000000 < (target % 1000000) * T)

WindowQuery == query.op = "select_ecs" /\ query.ppm # <<>>

\* C5: with ppm = T, select_ecs returns the compositions, each once, of the rows
\* with a listed heavy-atom count whose tier value is strictly inside the
\* window of target * T / 10^6 around the target
C5_StrictWindow ==
    WindowQuery =>
        query.result =
            {Composition(r) : r \in {x \in Range(substructures) :
                /\ x.heavy_atoms \in Range(query.heavy_atoms)
                /\ InsideWindow(TierColumn(x, query.accuracy), query.exact_mass, query.ppm[1])}}

\* a window from 21 to 29 at tier 1: a row on the upper edge is left out, and
\* two rows inside share the one composition returned
C5_Witness ==
    /\ WindowQuery
    /\ query.exact_mass = 25000000 /\ query.ppm = <<160000>> /\ query.accuracy = "1"
    /\ \E r \in Range(substructures) :
          /\ r.heavy_atoms \in Range(query.heavy_atoms)
          /\ r.exact_mass__1 = 29000000
          /\ Composition(r) \notin query.result
    /\ \E r1, r2 \in Range(substructures) :
          /\ r1 # r2
          /\ Composition(r1) = Composition(r2)
          /\ r1.heavy_atoms \in Range(query.heavy_atoms)
          /\ query.result = {Composition(r1)}

SubStructuresQuery == query.op = "select_sub_structures"

\* the rows of the store that have composition c
RowsOf(c) == {r \in Range(substructures) : Composition(r) = c}

\* C6: select_sub_structures returns [] when a tuple of l_atoms has no row of
\* that composition; otherwise a list as long as l_atoms whose i-th element
\* holds the payloads of all rows of the i-th composition and is not empty
C6_AllOrNothing ==
    SubStructuresQuery =>
        LET l_atoms == query.l_atoms
        IN IF \E i \in DOMAIN l_atoms : RowsOf(l_atoms[i]) = {}
           THEN query.result = <<>>
           ELSE /\ Len(query.result) = Len(l_atoms)
                /\ \A i \in DOMAIN l_atoms :
                      /\ query.result[i] # {}
                      /\ \A x \in query.result[i] :
                            \E r \in RowsOf(l_atoms[i]) : r.lib = pickle_dumps(x)
                      /\ \A r \in RowsOf(l_atoms[i]) :
                            \E x \in query.result[i] : r.lib = pickle_dumps(x)

\* three compositions of which the first and the last have rows and the second
\* has none: the result is []
C6_Witness ==
    /\ SubStructuresQuery
    /\ Len(query.l_atoms) = 3
    /\ RowsOf(query.l_atoms[1]) # {}
    /\ RowsOf(query.l_atoms[2]) = {}
    /\ RowsOf(query.l_atoms[3]) # {}
    /\ query.result = <<>>

MassValuesQuery == query.op = "select_mass_values"
CandidateList == query.masses.list /\ query.masses.values # <<>>

\* the rows select_mass_values admits by valence and heavy-atom count
Admissible ==
    {r \in Range(substructures) :
        r.valence <= query.max_valence /\ r.heavy_atoms \in Range(query.heavy_atoms)}

\* C7: without a candidate mass list, select_mass_values returns a strictly
\* ascending list of exactly the tier values of the rows whose valence is at
\* most max_valence and whose heavy-atom count is listed
C7_SortedDistinctTierValues ==
    (MassValuesQuery /\ ~CandidateList) =>
        /\ \A i, j \in DOMAIN query.result : i < j => query.result[i] < query.result[j]
        /\ Range(query.result) = {TierColumn(r, query.accuracy) : r \in Admissible}

\* two admissible rows share a tier value, a row of valence max_valence is
\* admitted, a row of higher valence is not, and two values are returned
C7_Witness ==
    /\ MassValuesQuery /\ ~CandidateList
    /\ Len(query.result) >= 2
    /\ \E r1, r2 \in Admissible :
          r1 # r2 /\ TierColumn(r1, query.accuracy) = TierColumn(r2, query.accuracy)
    /\ \E r \in Admissible : r.valence = query.max_valence
    /\ \E r \in Range(substructures) : r.valence > query.max_valence

\* C8: with a candidate mass list, at every tier, each value select_mass_values
\* returns is in the list and each candidate that is the tier value of an
\* admissible row is returned
C8_RestrictedToCandidates ==
    (MassValuesQuery /\ CandidateList) =>
        /\ Range(query.result) \subseteq Range(query.masses.values)
        /\ \A m \in Range(query.masses.values) :
              (\E r \in Admissible : TierColumn(r, query.accuracy) = m)
                  => m \in Range(query.result)

\* C9: select_compounds returns every compound row for an empty list and, for
\* a list of one, two or more ids, the compound rows whose id is in the list
C9_RowsOfListedIds ==
    query.op = "select_compounds" =>
        query.result =
            IF query.cpds = <<>> THEN Range(compounds)
            ELSE {compounds[id] : id \in DOMAIN compounds \cap Range(query.cpds)}

(***************************************************************************)
(* Properties of extraction (SpecExtract)                                  *)
(***************************************************************************)
\* two results of get_substructure agree in all that a caller reads
SameLib(a, b) ==
    IF a = None \/ b = None THEN a = None /\ b = None
    ELSE /\ a.smiles = b.smiles
         /\ a.degree_atoms = b.degree_atoms
         /\ a.bond_types = b.bond_types
         /\ a.valence = b.valence
         /\ a.atoms_available = b.atoms_available
         /\ a.dummies = b.dummies

KeptRecords == filter_records(last.args[1])
PathsOf(record) == Flatten(Sgs(record.mol, last.args[2], last.args[3]))

\* the link of a fragment, and the rows the last call built from it
LinkOf(record, mol_out) == <<record.accession, MolToSmiles(mol_out)>>
RowsFrom(mol_out) == {row \in written : pickle_loads(row.lib).mol = mol_out}

\* C11: a call of update_substructure_database does not raise; a bond subset
\* whose fragment fails kekulization leaves no substructure row and no link,
\* and every other bond subset of every kept record of the batch is stored with
\* its link
C11_KekulizeFailureSkipsSubset ==
    last.op = "update_substructure_database" =>
        /\ ~last.raised
        /\ \A n \in DOMAIN KeptRecords :
              \A idxs \in Range(PathsOf(KeptRecords[n])) :
                  IF KekulizeFails(MolOut(KeptRecords[n].mol, idxs))
                  THEN /\ RowsFrom(MolOut(KeptRecords[n].mol, idxs)) = {}
                       /\ MolToSmiles(MolOut(KeptRecords[n].mol, idxs)) \notin DOMAIN substructures
                       /\ LinkOf(KeptRecords[n], MolOut(KeptRecords[n].mol, idxs))
                              \notin hmdbid_substructures
                  ELSE /\ RowsFrom(MolOut(KeptRecords[n].mol, idxs)) # {}
                       /\ MolToSmiles(MolOut(KeptRecords[n].mol, idxs)) \in DOMAIN substructures
                       /\ LinkOf(KeptRecords[n], MolOut(KeptRecords[n].mol, idxs))
                              \in hmdbid_substructures

\* a call in which a bond subset of a record failed kekulization, a later bond
\* subset of the same record was stored, and so were fragments of the next record
C11_Witness ==
    /\ last.op = "update_substructure_database"
    /\ \E n \in DOMAIN KeptRecords :
          /\ n < Len(KeptRecords)
          /\ \E i, j \in DOMAIN PathsOf(KeptRecords[n]) :
                /\ i < j
                /\ KekulizeFails(MolOut(KeptRecords[n].mol, PathsOf(KeptRecords[n])[i]))
                /\ LinkOf(KeptRecords[n], MolOut(KeptRecords[n].mol, PathsOf(KeptRecords[n])[j]))
                      \in hmdbid_substructures
          /\ \E idxs \in Range(PathsOf(KeptRecords[n + 1])) :
                LinkOf(KeptRecords[n + 1], MolOut(KeptRecords[n + 1].mol, idxs))
                    \in hmdbid_substructures

(***************************************************************************)
(* Properties of the substructure network (SpecNetwork)                    *)
(***************************************************************************)
NetworkQuery == query.op = "generate_substructure_network"

\* the compounds of the store linked to a substructure, and to two of them
CompoundsOf(smiles) == {id \in DOMAIN compounds : <<id, smiles>> \in hmdbid_substructures}
SharedCompounds(a, b) == CompoundsOf(a) \cap CompoundsOf(b)

\* the substructures linked to at least n compounds
AtLeast(n) == {s \in {link[2] : link \in hmdbid_substructures} : Cardinality(CompoundsOf(s)) >= n}

\* the edges of the graph returned, and the two kinds of node
EdgesOf(G) == DOMAIN G.edge
CompoundNodesOf(G) == {n \in DOMAIN G.node : n[1] = "compound"}
SubstructureNodesOf(G) == {n \in DOMAIN G.node : n[1] = "substructure"}

\* C12: in default mode two filtered substructures are joined by an edge iff a
\* compound is linked to both, the weight of the edge is the number of such
\* compounds, and the graph has no other edge
C12_DefaultCountsSharedCompounds ==
    (NetworkQuery /\ query.method = "default") =>
        /\ ~query.result.raised
        /\ \A a, b \in AtLeast(query.min_node_weight) :
              a # b =>
                IF SharedCompounds(a, b) = {}
                THEN {SubstructureNode(a), SubstructureNode(b)} \notin EdgesOf(query.result)
                ELSE /\ {SubstructureNode(a), SubstructureNode(b)} \in EdgesOf(query.result)
                     /\ query.result.edge[{SubstructureNode(a), SubstructureNode(b)}]
                            = <<Cardinality(SharedCompounds(a, b))>>
        /\ \A e \in EdgesOf(query.result) :
              \E a, b \in AtLeast(query.min_node_weight) :
                  a # b /\ e = {SubstructureNode(a), SubstructureNode(b)}

\* two compounds with the substructures {a, b} and {b, c}, min_node_weight 1:
\* a-b and b-c have weight 1 and there is no edge a-c
C12_Witness ==
    /\ NetworkQuery
    /\ query.method = "default"
    /\ query.min_node_weight = 1
    /\ \E x, y \in DOMAIN compounds, a, b, c \in AtLeast(1) :
          /\ x # y
          /\ {s \in AtLeast(1) : x \in CompoundsOf(s)} = {a, b}
          /\ {s \in AtLeast(1) : y \in CompoundsOf(s)} = {b, c}
          /\ a # b /\ b # c /\ a # c
          /\ query.result.edge[{SubstructureNode(a), SubstructureNode(b)}] = <<1>>
          /\ query.result.edge[{SubstructureNode(b), SubstructureNode(c)}] = <<1>>
          /\ {SubstructureNode(a), SubstructureNode(c)} \notin EdgesOf(query.result)

\* C13: in extended mode without parents every compound adds 1 to the weight of
\* the edge between each unordered pair of its neighbours, so the weight of an
\* edge is the number of compounds linked to both ends; one compound linked to
\* three substructures gives three edges of weight 1
C13_OnePerUnorderedPair ==
    (NetworkQuery /\ query.method = "extended") =>
        \A a, b \in AtLeast(query.min_node_weight) :
            (a # b /\ SharedCompounds(a, b) # {}) =>
                /\ {SubstructureNode(a), SubstructureNode(b)} \in EdgesOf(query.result)
                /\ query.result.edge[{SubstructureNode(a), SubstructureNode(b)}]
                        = <<Cardinality(SharedCompounds(a, b))>>

\* C14: after extended mode without parents the graph has no node of a compound
\* of the compounds table and no self-loop
C14_NoCompoundNodeNoSelfLoop ==
    (NetworkQuery /\ query.method = "extended") =>
        /\ ~query.result.raised
        /\ \A id \in DOMAIN compounds : CompoundNode(id) \notin DOMAIN query.result.node
        /\ \A e \in EdgesOf(query.result) : Cardinality(e) = 2

\* an extended network over a store of several compounds, one of them linked to
\* two substructures that are now joined by an edge
C14_Witness ==
    /\ NetworkQuery
    /\ query.method = "extended"
    /\ Cardinality(DOMAIN compounds) >= 2
    /\ \E a, b \in AtLeast(query.min_node_weight) :
          /\ a # b
          /\ SharedCompounds(a, b) # {}
          /\ {SubstructureNode(a), SubstructureNode(b)} \in EdgesOf(query.result)

\* C15: in parent_structure_linkage mode, isolated nodes not removed, every
\* compound of the store is a node, and every edge joins a compound to one of
\* its filtered substructures
C15_ParentsKeptNoRedistribution ==
    (NetworkQuery /\ query.method = "parent_structure_linkage" /\ ~query.remove_isolated) =>
        /\ ~query.result.raised
        /\ CompoundNodesOf(query.result) = {CompoundNode(id) : id \in DOMAIN compounds}
        /\ \A e \in EdgesOf(query.result) :
              \E id \in DOMAIN compounds, s \in AtLeast(query.min_node_weight) :
                  /\ e = {CompoundNode(id), SubstructureNode(s)}
                  /\ id \in CompoundsOf(s)

\* a parent_structure_linkage network with a compound joined to two
\* substructures that share it
C15_Witness ==
    /\ NetworkQuery
    /\ query.method = "parent_structure_linkage"
    /\ ~query.remove_isolated
    /\ \E id \in DOMAIN compounds, a, b \in AtLeast(query.min_node_weight) :
          /\ a # b
          /\ {CompoundNode(id), SubstructureNode(a)} \in EdgesOf(query.result)
          /\ {CompoundNode(id), SubstructureNode(b)} \in EdgesOf(query.result)

\* C16: in every mode, isolated nodes not removed, the substructure nodes are
\* the substructures linked to at least min_node_weight compounds, each with
\* that number of compounds as its weight, and no edge ends at a substructure
\* below the threshold
C16_NodesAreFilteredSubstructures ==
    (NetworkQuery /\ ~query.remove_isolated) =>
        /\ SubstructureNodesOf(query.result)
              = {SubstructureNode(s) : s \in AtLeast(query.min_node_weight)}
        /\ \A s \in AtLeast(query.min_node_weight) :
              query.result.node[SubstructureNode(s)] = <<Cardinality(CompoundsOf(s))>>
        /\ \A e \in EdgesOf(query.result) : \A n \in e :
              n[1] = "substructure" => n[2] \in AtLeast(query.min_node_weight)

\* a network with threshold 2 over a store that has substructures of one
\* compound and substructures of two, the latter joined by an edge
C16_Witness ==
    /\ NetworkQuery
    /\ ~query.remove_isolated
    /\ query.min_node_weight = 2
    /\ AtLeast(1) \ AtLeast(2) # {}
    /\ \E a, b \in AtLeast(2) :
          a # b /\ {SubstructureNode(a), SubstructureNode(b)} \in EdgesOf(query.result)

(***************************************************************************)
(* Properties of the pipeline's transaction (SpecTxn)                      *)
(***************************************************************************)
\* C19: a call of update_substructure_database commits once, after the last
\* record of the batch: the durable tables change only in that commit, until
\* then they are what they were when the call began, a call that returns has
\* committed exactly once, and a call that ends before its commit leaves the
\* durable tables as they were when it began
C19_OneCommitAfterLastRecord ==
    [][/\ Durable' # Durable =>
            /\ conn.open
            /\ conn.todo = <<>>
            /\ conn.commits = 0
            /\ conn'.commits = 1
            /\ conn'.state = "returned"
       /\ conn'.open => (conn'.commits = 0 /\ Durable' = conn'.before)
       /\ conn'.state = "returned" =>
            /\ conn'.commits = 1
            /\ Durable' = <<conn'.T.compounds, conn'.T.substructures,
                            conn'.T.hmdbid_substructures>>
       /\ conn'.state = "aborted" => (conn'.commits = 0 /\ Durable' = conn'.before)]_vars

\* a call on a batch of two kept records has returned: its rows are durable
\* after its one commit
C19_Witness ==
    /\ conn.state = "returned"
    /\ Len(filter_records(conn.args[1])) >= 2
    /\ conn.commits = 1
    /\ Durable # conn.before

(***************************************************************************)
(* Properties of the isomorphism catalog build (SpecIso)                   *)
(***************************************************************************)
\* no element of s is in s twice
NoDuplicates(s) == \A i, j \in DOMAIN s : s[i] = s[j] => i = j

\* the edge sequences the matcher printed for a valence signature
EdgeSequencesOf(vn) ==
    {r.line.es : r \in {x \in Range(RI_all) : x.line.kind = "mapping" /\ x.line.vn = vn}}

\* the paths of a prefix tree from its root to its leaves
RECURSIVE PathsOf_tree(_)
PathsOf_tree(tree) ==
    IF DOMAIN tree = {} THEN {<<>>}
    ELSE UNION {{<<e>> \o path : path \in PathsOf_tree(tree[e])} : e \in DOMAIN tree}

\* the candidate at hand has been read, folded and persisted
CandidatePersisted == pc \in {"candidate", "template", "done"} /\ folded # <<>>

\* the identifier given to the i-th signature of the accumulator
IdOf(i) == id_pkl - Len(subgraphs) + i

\* C17: the accumulator holds every valence signature once and, for a
\* signature, every edge sequence at most once, whatever batches it came in;
\* the persisted row counts the distinct edge sequences the matcher printed
\* for the signature and the persisted prefix tree has them as its paths
C17_EachMappingOnce ==
    /\ \A i, j \in DOMAIN subgraphs : subgraphs[i].vn = subgraphs[j].vn => i = j
    /\ \A i \in DOMAIN subgraphs : NoDuplicates(subgraphs[i].frs)
    /\ CandidatePersisted =>
          \A i \in DOMAIN subgraphs :
              /\ Range(subgraphs[i].frs) = EdgeSequencesOf(subgraphs[i].vn)
              /\ \E row \in subgraphs_table :
                    /\ row.id_pkl = IdOf(i)
                    /\ row.nodes_valences = str(subgraphs[i].vn)
                    /\ row.n_graphs = Cardinality(EdgeSequencesOf(subgraphs[i].vn))
              /\ PathsOf_tree(pkls[IdOf(i)]) = EdgeSequencesOf(subgraphs[i].vn)

\* a candidate persisted after two batches that both held a mapping of the
\* same valence signature and edge sequence
C17_Witness ==
    /\ CandidatePersisted
    /\ Len(folded) >= 2
    /\ \E x \in Range(folded[1]), y \in Range(folded[2]) : x.line = y.line

\* C18: a run of the generator that exits with a non-zero status or prints
\* nothing gives its template no candidate graph: the matcher is not run for
\* the template and no row of the catalog is of the template, and the build
\* does not raise
C18_FailedGeneratorYieldsNothing ==
    /\ pc # "raised"
    /\ \A i \in DOMAIN geng_runs :
          (geng_runs[i].status # 0 \/ geng_runs[i].lines = <<>>) =>
              /\ ~(pc = "lines" /\ i = Len(geng_runs))
              /\ \A row \in subgraphs_table : row.k_partite # str(geng_runs[i].p)

\* runs a followed by runs b
RECURSIVE ConcatRuns(_, _)
ConcatRuns(a, b) ==
    IF b = <<>> THEN a ELSE ConcatRuns(AppendLines(a, Head(b).line, Head(b).n), Tail(b))

\* the batches of a sequence of batches, one after the other
RECURSIVE ConcatBatches(_)
ConcatBatches(batches) ==
    IF batches = <<>> THEN <<>>
    ELSE ConcatRuns(Head(batches), ConcatBatches(Tail(batches)))

\* the mapping records among lines
IsMappingRun(run) == run.line.kind = "mapping"
MappingRecords(runs) == ConcatRuns(<<>>, SelectSeq(runs, IsMappingRun))

\* C20: the pending batch never holds more than BatchSize records; every batch
\* folded is of exactly BatchSize records, but the last one of a candidate,
\* which is of 1 to BatchSize records and folded when the matcher's output is
\* read; the batches folded, the pending batch and the records still to read
\* are, in this order, the matcher's mapping records: each is folded once
C20_BatchesPartitionTheRecords ==
    /\ RunsLen(mappings) <= BatchSize
    /\ \A i \in DOMAIN folded :
          /\ RunsLen(folded[i]) \in 1 .. BatchSize
          /\ (i < Len(folded) \/ pc = "lines") => RunsLen(folded[i]) = BatchSize
    /\ pc = "lines" =>
          ConcatRuns(ConcatRuns(ConcatBatches(folded), mappings), MappingRecords(RI_out))
              = MappingRecords(RI_all)
    /\ (pc \in {"candidate", "template", "done"} /\ RI_out = <<>>) =>
          ConcatBatches(folded) = MappingRecords(RI_all)

\* a candidate whose records were folded as two full batches and a last batch
\* of fewer records
C20_Witness ==
    /\ CandidatePersisted
    /\ Len(folded) = 3
    /\ RunsLen(folded[1]) = BatchSize
    /\ RunsLen(folded[2]) = BatchSize
    /\ RunsLen(folded[3]) < BatchSize

(***************************************************************************)
(* Properties of the prefix tree (SpecTree)                                *)
(***************************************************************************)
PathsQuery == query.op = "paths"

\* the paths enumerated are the mappings inserted, each once
RoundTrip ==
    /\ Range(query.result) = Range(query.frs)
    /\ NoDuplicates(query.result)

\* C21 as stated: for every list of mappings of one length, the empty list
\* too, the paths of the tree built from them are the distinct mappings
\* inserted, each once, and nothing else
C21_RoundTripOfAnySet == PathsQuery => RoundTrip

\* C21: for every non-empty list of mappings of one length, the paths of the
\* tree built from them are the distinct mappings inserted, each once, and
\* nothing else; the tree of no mapping has one path, the empty one
C21_RoundTripOfNonEmptySet ==
    PathsQuery =>
        IF query.frs = <<>> THEN query.result = << <<>> >> ELSE RoundTrip

\* three mappings inserted, two of them equal and the third sharing their
\* first edge: two paths are enumerated
C21_Witness ==
    /\ PathsQuery
    /\ Len(query.frs) = 3
    /\ query.frs[1] = query.frs[3]
    /\ query.frs[1] # query.frs[2]
    /\ Len(query.frs[1]) = 2
    /\ query.frs[1][1] = query.frs[2][1]
    /\ Len(query.result) = 2

\* C22: the identifiers of the rows of the catalog are 1 .. id_pkl, one row
\* per identifier, whatever templates, candidates and signatures the rows come
\* from; an identifier addresses one artifact, the prefix tree built from the
\* edge sequences of its row's signature; a step of the build gives new rows
\* identifiers above those given before and leaves the rows and artifacts it
\* found as they are
C22_IdsConsecutiveOneArtifactEach ==
    /\ [](/\ {row.id_pkl : row \in subgraphs_table} = 1 .. id_pkl
          /\ Cardinality(subgraphs_table) = id_pkl
          /\ DOMAIN pkls = 1 .. id_pkl
          /\ CandidatePersisted =>
                \A i \in DOMAIN subgraphs :
                    /\ \E row \in subgraphs_table :
                          /\ row.id_pkl = IdOf(i)
                          /\ row.nodes_valences = str(subgraphs[i].vn)
                    /\ pkls[IdOf(i)] = PrefixTree(<<>>, subgraphs[i].frs))
    /\ [][pc # "idle" =>
            /\ subgraphs_table \subseteq subgraphs_table'
            /\ \A row \in subgraphs_table' \ subgraphs_table : row.id_pkl > id_pkl
            /\ \A id \in DOMAIN pkls : pkls'[id] = pkls[id]]_vars

\* a build is over whose rows come from two templates and whose last candidate
\* had two signatures
C22_Witness ==
    /\ pc = "done"
    /\ id_pkl >= 3
    /\ Cardinality({row.k_partite : row \in subgraphs_table}) = 2
    /\ Len(subgraphs) = 2
    /\ folded # <<>>

\* C27: n_graphs of a row of the catalog is the number of paths from the root
\* to a leaf of the prefix tree stored under the row's identifier, which is
\* the number of sequences isomorphism_graphs yields for the identifier
C27_NGraphsCountsThePaths ==
    \A row \in subgraphs_table : row.n_graphs = Len(isomorphism_graphs(row.id_pkl))

\* a row that counts two mappings whose edge sequences share their first edge:
\* the tree under its identifier has one node below the root and two leaves
C27_Witness ==
    \E row \in subgraphs_table :
        /\ row.n_graphs = 2
        /\ Cardinality(DOMAIN pkls[row.id_pkl]) = 1
        /\ Len(isomorphism_graphs(row.id_pkl)) = 2

\* the rows of the catalog with a node-valence signature
RowsOfSignature(sig) == {row \in subgraphs_table : row.nodes_valences = sig}

\* C29: the map k_configs returns has one entry per node-valence signature of
\* the catalog, and its value is the identifier of the last row read with the
\* signature, the one inserted last: the other rows of the signature are in
\* no entry
C29_OneEntryPerSignatureLastRowWins ==
    query.op = "k_configs" =>
        /\ DOMAIN query.result = {row.nodes_valences : row \in subgraphs_table}
        /\ \A sig \in DOMAIN query.result :
              /\ \E row \in RowsOfSignature(sig) : query.result[sig] = row.id_pkl
              /\ \A row \in RowsOfSignature(sig) : row.id_pkl <= query.result[sig]

\* k_configs on a catalog of two signatures, one of them shared by rows of
\* two candidate graphs
C29_Witness ==
    /\ query.op = "k_configs"
    /\ Cardinality(DOMAIN query.result) = 2
    /\ \E sig \in DOMAIN query.result : Cardinality(RowsOfSignature(sig)) >= 2

(***************************************************************************)
(* Properties of the persistence of a candidate's signatures (SpecCommit)  *)
(***************************************************************************)
\* a step commits only out of the loop over the signatures, once, with every
\* row of the catalog under an artifact
CommitStep ==
    /\ block'.commits # block.commits =>
          /\ block'.commits = block.commits + 1
          /\ pc = "persist" /\ block.todo = <<>> /\ ~block.dumping
          /\ block'.committed = subgraphs_table'
          /\ \A row \in subgraphs_table' : row.id_pkl \in DOMAIN pkls'
    /\ (pc = "persist" /\ pc' = "candidate") => block'.commits = block.commits + 1
    /\ pc' = "persist" => block'.commits = block.commits

\* C23: the signatures of a candidate are committed by one commit, issued
\* when every one of them has its row and its artifact: no step of the loop
\* over the signatures commits, the step that leaves the loop commits once,
\* and at a commit every row of the catalog has an artifact under its
\* identifier; a row that awaits its artifact is not committed
C23_CommitAfterRowsAndArtifacts ==
    /\ [](/\ \A row \in block.committed : row.id_pkl \in DOMAIN pkls
          /\ block.dumping =>
                \E row \in subgraphs_table \ block.committed :
                    row.id_pkl = id_pkl /\ id_pkl \notin DOMAIN pkls)
    /\ [][CommitStep]_vars

\* the second commit of a build: three rows are committed, two of them of the
\* candidate whose signatures were just persisted
C23_Witness ==
    /\ pc = "candidate"
    /\ block.commits = 2
    /\ Cardinality(block.committed) = 3
    /\ Len(subgraphs) = 2
    /\ DOMAIN pkls = 1 .. 3

(***************************************************************************)
(* Properties of the fragments (SpecFragment)                              *)
(***************************************************************************)
\* the atoms of the parent at the ends of the bonds of a list
SelectedAtoms(idxs) ==
    UNION {{parent.bonds[k].a1, parent.bonds[k].a2} : k \in Range(idxs)}

\* the atoms of the parent outside a set of atoms and bonded to one of it
BoundaryAtoms(sel) ==
    {j \in AtomIdxs(parent) \ sel :
        \E k \in BondIdxs(parent) :
            {parent.bonds[k].a1, parent.bonds[k].a2} \cap sel # {}
            /\ j \in {parent.bonds[k].a1, parent.bonds[k].a2}}

\* the index in the fragment of atom i of the parent, the atoms of a set
\* being those kept
IndexIn(kept, i) == Cardinality({k \in kept : k <= i})

\* the bonds of a molecule between two atoms, as bond orders
OrdersBetween(mol, i, j) ==
    LET ks == {k \in BondIdxs(mol) : {mol.bonds[k].a1, mol.bonds[k].a2} = {i, j}}
    IN [k \in ks |-> mol.bonds[k].order]

\* the extractions that returned a fragment
Fragments == {e \in Range(extracted) : e.result # None}

\* the fragment of an extraction has the selected atoms as they are in the
\* parent, a wildcard for each boundary atom and nothing else, and each cut
\* bond once with its order
CappedAtTheCuts(e) ==
    LET sel == SelectedAtoms(e.idxs)
        bnd == BoundaryAtoms(sel)
        out == e.result.mol
    IN /\ Len(out.atoms) = Cardinality(sel \cup bnd)
       /\ \A i \in sel : out.atoms[IndexIn(sel \cup bnd, i)] = parent.atoms[i]
       /\ \A j \in bnd : IsDummy(out, IndexIn(sel \cup bnd, j))
       /\ Range(e.result.dummies) = {IndexIn(sel \cup bnd, j) : j \in bnd}
       /\ \A k \in BondIdxs(parent) :
              LET a1 == parent.bonds[k].a1
                  a2 == parent.bonds[k].a2
              IN (a1 \in sel /\ a2 \in bnd) \/ (a1 \in bnd /\ a2 \in sel) =>
                    LET cut == OrdersBetween(out, IndexIn(sel \cup bnd, a1),
                                             IndexIn(sel \cup bnd, a2))
                    IN /\ Cardinality(DOMAIN cut) = 1
                       /\ \A kk \in DOMAIN cut : cut[kk] = parent.bonds[k].order

\* C24: in every fragment get_substructure returns, the atoms that are no
\* wildcard are the atoms at the ends of the selected bonds, the wildcards are
\* the boundary atoms, one for each, and every bond between a selected atom
\* and a boundary atom is kept with its order
C24_SelectedAtomsAndOneWildcardPerBoundaryAtom ==
    \A e \in Fragments : CappedAtTheCuts(e)

\* a fragment with two wildcards, one of them at a cut double bond
C24_Witness ==
    \E e \in Fragments :
        /\ Len(e.result.dummies) = 2
        /\ \E k \in BondIdxs(e.result.mol) :
              /\ e.result.mol.bonds[k].order = DOUBLE
              /\ IsDummy(e.result.mol, e.result.mol.bonds[k].a2)

\* the atoms of a fragment that are no wildcard and are bonded to one
AttachmentPoints(out) ==
    {n \in AtomIdxs(out) : ~IsDummy(out, n) /\ \E d \in Neighbors(out, n) : IsDummy(out, d)}

\* C25: in every fragment get_substructure returns, bond_types and
\* degree_atoms have the same keys, the atoms that are no wildcard and are
\* bonded to a wildcard; a bond between two wildcards is in neither; and the
\* list of bond orders of a key is as long as its open-valence count
C25_BondTypesAndDegreesAgree ==
    \A e \in Fragments :
        /\ DOMAIN e.result.degree_atoms = AttachmentPoints(e.result.mol)
        /\ DOMAIN e.result.bond_types = AttachmentPoints(e.result.mol)
        /\ \A n \in AttachmentPoints(e.result.mol) :
              Len(e.result.bond_types[n]) = e.result.degree_atoms[n]

\* the bonds of a fragment between two atoms that are no wildcard
InnerBonds(out) ==
    {k \in BondIdxs(out) : ~IsDummy(out, out.bonds[k].a1) /\ ~IsDummy(out, out.bonds[k].a2)}

\* C26: in every fragment get_substructure returns, the bonds between two
\* atoms that are no wildcard are the selected bonds: a bond of the parent
\* between two selected atoms that is not selected is not in the fragment
C26_EdgeInducedFragment ==
    \A e \in Fragments :
        LET sel == SelectedAtoms(e.idxs)
            kept == sel \cup BoundaryAtoms(sel)
            selected == {<<IndexIn(kept, parent.bonds[k].a1), IndexIn(kept, parent.bonds[k].a2),
                           parent.bonds[k].order>> : k \in Range(e.idxs)}
            inner == {<<e.result.mol.bonds[k].a1, e.result.mol.bonds[k].a2,
                        e.result.mol.bonds[k].order>> : k \in InnerBonds(e.result.mol)}
        IN inner = selected

(***************************************************************************)
(* Properties of the two ways to a network and of the helper tables        *)
(***************************************************************************)
\* every link of the store is of a compound of the store
LinksHaveCompounds == \A link \in hmdbid_substructures : link[1] \in DOMAIN compounds

\* the network default mode returns for the threshold and the removal of
\* isolated nodes of the last query
DefaultNetwork == generate_substructure_network("default", query.min_node_weight,
                                                query.remove_isolated)

HelperTablesFor(min_node_weight) ==
    [unique_hmdbid |-> [exists |-> TRUE, rows |-> DOMAIN compounds, raised |-> FALSE],
     filtered_hmdbid_substructures |->
        [exists |-> TRUE,
         rows |-> [s \in AtLeast(min_node_weight) |->
                      Cardinality({link \in hmdbid_substructures : link[2] = s})],
         raised |-> FALSE]]

\* a call of generate_substructure_network leaves the three tables as they
\* are and the helper tables as its threshold makes them
NetworkStep ==
    helpers' # helpers =>
        /\ <<compounds, substructures, hmdbid_substructures>>'
              = <<compounds, substructures, hmdbid_substructures>>
        /\ query'.op = "generate_substructure_network"
        /\ helpers'.unique_hmdbid = HelperTablesFor(query'.min_node_weight).unique_hmdbid
        /\ helpers'.filtered_hmdbid_substructures
              = HelperTablesFor(query'.min_node_weight).filtered_hmdbid_substructures

\* C30: generate_substructure_network changes no row of compounds,
\* substructures and hmdbid_substructures; it makes or replaces the helper
\* tables unique_hmdbid and filtered_hmdbid_substructures, which are those of
\* the threshold of the last call whatever calls came before
C30_OnlyHelperTablesChange ==
    /\ [](helpers.calls > 0 =>
            /\ NetworkQuery
            /\ helpers.unique_hmdbid = HelperTablesFor(query.min_node_weight).unique_hmdbid
            /\ helpers.filtered_hmdbid_substructures
                  = HelperTablesFor(query.min_node_weight).filtered_hmdbid_substructures)
    /\ [][NetworkStep]_vars

\* a second call, with threshold 2, on a store that has substructures of one
\* compound and of two: the filtered table has the latter only
C30_Witness ==
    /\ helpers.calls = 2
    /\ query.min_node_weight = 2
    /\ AtLeast(2) # {}
    /\ AtLeast(1) # AtLeast(2)
    /\ DOMAIN helpers.filtered_hmdbid_substructures.rows = AtLeast(2)

====
